---- MODULE Spec2Model ----
(***************************************************************************)
(* Model of the sliding-window rate limiter of moya.util.ratelimit: the    *)
(* RateLimit value object, the in-memory backend MemLimiter and the        *)
(* shared-store backend RedisLimiter, together with the parts of           *)
(* moya.service.redis and moya.util.background they run through, and of    *)
(* the request-gating adapters of moya.util.fastapi_ratelimit.             *)
(*                                                                         *)
(* Strings are sequences of one-character strings, so that joining a       *)
(* base_key and a user_id, formatting a timestamp and matching a scan      *)
(* pattern are computed character by character.  Time is counted in whole  *)
(* seconds.  Every operation is applied to the MemLimiter and to the       *)
(* RedisLimiter constructed with the same base_key and the same RateLimit, *)
(* so that the two backends see the same calls at the same times.          *)
(***************************************************************************)
EXTENDS Integers, Sequences, FiniteSets, Bags, TLC

\* ------------------------------------------------------------------------
\* Bounds of the model
\* ------------------------------------------------------------------------
\* Instants of the clock are s + 60*m + 3600*h seconds; the limiters under
\* the general specifications are observed over the seconds 0..MaxSec.
MaxSec == 2

\* timestamps the MemLimiters hold, and calls the RedisLimiters admitted
MaxEvents == 3

\* the scenario: instants and number of calls
ScenarioMaxSec == 2

ScenarioMaxMin == 2

ScenarioMaxHour == 0

MaxTrace == 7

\* as MaxEvents, when the store may fail
FaultMaxEvents == 2

\* events the limiters of the adapters hold
AdapterMaxEvents == 2

\* the adapters are observed over the seconds 0..AdapterMaxSec
AdapterMaxSec == 1

\* the largest limit of a RateLimit field and the longest base_key of the
\* specification of the value objects
MaxLimit == 2

MaxKeyLen == 5

\* try_ratelimit calls in flight at the same time
MaxInFlight == 2

\* items put on the queue of an asyncpool, its workers and its maxsize
MaxItems == 3

MaxWorkers == 2

MaxQueueSize == 1

\* kafka_batch_size of a KafkaRunner and the process exits it goes through;
\* the topic holds the records with the offsets 1..MaxItems
MaxBatch == 2

MaxCrashes == 1

\* the slots of the keyspace a scan call visits (its count argument), and
\* the events the store holds while a reset pages through it
ScanCount == 2

ResetMaxEvents == 2

\* connections redis() hands out while they are counted
MaxConns == 4

\* KafkaBase: the largest startup_timeout, and the times run() is entered
MaxStartupTimeout == 2
MaxRuns == 2

\* ------------------------------------------------------------------------
\* Values
\* ------------------------------------------------------------------------
None == <<>>

Some(n) == <<n>>

Ok == "ok"

RateLimitExceeded == "RateLimitExceeded"

KeyError == "KeyError"

IndexError == "IndexError"

ValueError == "ValueError"

\* redis.exceptions: what a round trip to the store raises when the store is
\* unreachable, times out or answers with an error
ConnectionError == "ConnectionError"

TimeoutError == "TimeoutError"

RedisError == "RedisError"

StoreErrors == {ConnectionError, TimeoutError, RedisError}

\* the store answers the round trip
Up == "up"

StoreAnswers == {Up} \cup StoreErrors

NoResult == "-"

\* base_key of the limiters; the second one has the first one plus ':' as a
\* prefix.
BaseKeys == { <<"a", "p", "i">>, <<"a", "p", "i", ":", "v">> }

\* the limiter and the user of the specifications with one limiter
ScenarioBase == <<"a", "p", "i">>

ScenarioUser == <<"a">>

\* user ids of the callers: two plain ones, or two of which one contains ':'
PlainUsers == { <<"a">>, <<"b">> }

ColonUsers == { <<"a">>, <<"v", ":", "a">> }

AllUsers == PlainUsers \cup ColonUsers

RateLimit(ps, pm, ph, pd) ==
    [per_second |-> ps, per_minute |-> pm, per_hour |-> ph, per_day |-> pd]

\* RateLimit configurations the general specification draws from
Configs ==
    { RateLimit(Some(1), None, None, None),
      RateLimit(Some(2), None, None, None),
      RateLimit(Some(1), Some(2), None, None) }

\* the configuration of the scenario of the tests (do_tests)
ScenarioConfig == RateLimit(None, Some(2), Some(4), None)

TimePoints(maxs, maxm, maxh) ==
    { s + 60 * m + 3600 * h : s \in 0..maxs, m \in 0..maxm, h \in 0..maxh }

\* ------------------------------------------------------------------------
\* RateLimit
\* ------------------------------------------------------------------------
RECURSIVE FilterSet(_)
FilterSet(pairs) ==
    IF pairs = <<>> THEN <<>>
    ELSE IF Head(pairs)[1] # None
         THEN << <<Head(pairs)[1][1], Head(pairs)[2]>> >> \o FilterSet(Tail(pairs))
         ELSE FilterSet(Tail(pairs))

\* RateLimit.rates: the (limit, duration) pairs of the fields that are set
rates(rl) ==
    FilterSet(<< <<rl.per_second, 1>>,
                 <<rl.per_minute, 60>>,
                 <<rl.per_hour, 60 * 60>>,
                 <<rl.per_day, 24 * 60 * 60>> >>)

\* a max_duration that takes the first entry of rates
max_duration_first(rl) == rates(rl)[1][2]

\* RateLimit.max_duration (the caller makes sure rates is not empty)
max_duration(rl) == rates(rl)[Len(rates(rl))][2]

\* RateLimit.is_empty
is_empty(rl) ==
    /\ rl.per_second = None
    /\ rl.per_minute = None
    /\ rl.per_hour = None
    /\ rl.per_day = None

\* ------------------------------------------------------------------------
\* LimitBase
\* ------------------------------------------------------------------------
\* a key that leaves the user out
key_without_user(base_key, user_id) == base_key \o <<":">>

\* LimitBase.key: ":".join([base_key, user_id])
key(base_key, user_id) == base_key \o <<":">> \o user_id

\* ------------------------------------------------------------------------
\* Dictionaries (partial functions)
\* ------------------------------------------------------------------------
EmptyDict == [k \in {} |-> <<>>]

DictSet(d, k, v) == [x \in (DOMAIN d) \cup {k} |-> IF x = k THEN v ELSE d[x]]

DictDel(d, ks) == [x \in (DOMAIN d) \ ks |-> d[x]]

\* ------------------------------------------------------------------------
\* MemLimiter
\* ------------------------------------------------------------------------
\* sum(1 for t in cur_limits if t > now - duration)
MemCount(cur_limits, t_now, duration) ==
    Cardinality({ i \in 1..Len(cur_limits) : cur_limits[i] > t_now - duration })

\* the loop over self.rates.rates of MemLimiter.try_ratelimit
MemExceeded(cur_limits, t_now, rs) ==
    \E i \in 1..Len(rs) : MemCount(cur_limits, t_now, rs[i][2]) >= rs[i][1]

\* a try_ratelimit that appends the timestamp before it checks the windows
MemTryRatelimit_append_first(d, k, t_now, rs) ==
    LET cur_limits == IF k \in DOMAIN d THEN d[k] ELSE <<>>
    IN [res |-> IF MemExceeded(cur_limits, t_now, rs) THEN RateLimitExceeded ELSE Ok,
        limits |-> DictSet(d, k, Append(cur_limits, t_now))]

\* MemLimiter.try_ratelimit on the dictionary d of one limiter
MemTryRatelimit(d, k, t_now, rs) ==
    LET cur_limits == IF k \in DOMAIN d THEN d[k] ELSE <<>>
    IN IF MemExceeded(cur_limits, t_now, rs)
       THEN [res |-> RateLimitExceeded, limits |-> DictSet(d, k, cur_limits)]
       ELSE [res |-> Ok, limits |-> DictSet(d, k, Append(cur_limits, t_now))]

\* MemLimiter.flush_user: del self._limits[key]
MemFlushUser(d, k) ==
    IF k \in DOMAIN d
    THEN [res |-> Ok, limits |-> DictDel(d, {k})]
    ELSE [res |-> KeyError, limits |-> d]

\* MemLimiter._reset
MemReset == EmptyDict

\* ------------------------------------------------------------------------
\* The shared store: key |-> [zset: member |-> score, expire_at]
\* ------------------------------------------------------------------------
DigitChar(d) == <<"0", "1", "2", "3", "4", "5", "6", "7", "8", "9">>[d + 1]

RECURSIVE Digits(_)
Digits(n) ==
    IF n < 10 THEN <<DigitChar(n)>>
    ELSE Digits(n \div 10) \o <<DigitChar(n % 10)>>

\* str(now) for a float that holds a whole number of seconds: "61.0"
PyStr(t) == Digits(t) \o <<".", "0">>

\* a key whose time to live has run out is gone
Purge(st, t) ==
    DictDel(st, { k \in DOMAIN st :
                    st[k].expire_at # None /\ t > st[k].expire_at[1] })

\* pipe.zcount(key, min, max): both ends are inclusive
ZCount(st, k, min, max) ==
    IF k \in DOMAIN st
    THEN Cardinality({ m \in DOMAIN st[k].zset :
                         min <= st[k].zset[m] /\ st[k].zset[m] <= max })
    ELSE 0

\* pipe.zadd(key, {member: score})
ZAdd(st, k, member, score) ==
    IF k \in DOMAIN st
    THEN DictSet(st, k, [st[k] EXCEPT !.zset = DictSet(st[k].zset, member, score)])
    ELSE DictSet(st, k, [zset |-> DictSet(EmptyDict, member, score),
                         expire_at |-> None])

\* pipe.expire(key, ttl), run by the store at time t
Expire(st, k, ttl, t) ==
    IF k \in DOMAIN st
    THEN DictSet(st, k, [st[k] EXCEPT !.expire_at = Some(t + ttl)])
    ELSE st

\* pipe.zremrangebyscore(key, min, max); an empty sorted set is no key
ZRemRangeByScore(st, k, min, max) ==
    IF k \in DOMAIN st
    THEN LET z == st[k].zset
             gone == { m \in DOMAIN z : min <= z[m] /\ z[m] <= max }
         IN IF gone = DOMAIN z
            THEN DictDel(st, {k})
            ELSE DictSet(st, k, [st[k] EXCEPT !.zset = DictDel(z, gone)])
    ELSE st

\* redis.delete(*keys)
Delete(st, ks) == DictDel(st, ks)

\* glob-style matching of redis.scan(match=...): '*' and '?' are wildcards
RECURSIVE GlobMatch(_, _)
GlobMatch(p, s) ==
    IF p = <<>> THEN s = <<>>
    ELSE IF Head(p) = "*"
         THEN GlobMatch(Tail(p), s) \/ (s # <<>> /\ GlobMatch(p, Tail(s)))
         ELSE IF s = <<>> THEN FALSE
              ELSE IF Head(p) = "?" THEN GlobMatch(Tail(p), Tail(s))
                   ELSE Head(p) = Head(s) /\ GlobMatch(Tail(p), Tail(s))

\* the keys redis.scan returns over the whole cursor loop
Scan(st, pattern) == { k \in DOMAIN st : GlobMatch(pattern, k) }

\* ------------------------------------------------------------------------
\* moya.service.redis
\* ------------------------------------------------------------------------
\* no connection handed out yet
NoConns == [acquired |-> 0, closed |-> 0, path |-> NoResult]

\* redis(): `yield conn` and then `await conn.aclose()`, with no try/finally
\* around the yield: aclose() runs when the body of the `async with` ends
\* normally; an exception of the body (Ok: none) leaves the generator at
\* the yield
redis_closes(outcome) == outcome = Ok

\* the connections after redis_try_run has run a coroutine with this
\* outcome inside `async with redis(...) as redis_conn`
RunThroughRedis(c, outcome) ==
    [acquired |-> c.acquired + 1,
     closed |-> c.closed + (IF redis_closes(outcome) THEN 1 ELSE 0),
     path |-> outcome]

\* a redis_try_run that absorbs connection errors only
redis_try_run_connection_only(outcome) ==
    IF outcome = ConnectionError THEN Ok ELSE outcome

\* redis_try_run, on the outcome of the coroutine it runs (Ok: it returned,
\* otherwise the exception it raised): ConnectionError, TimeoutError and
\* RedisError are logged and None is returned, other exceptions are raised
redis_try_run(outcome) ==
    IF outcome \in StoreErrors THEN Ok ELSE outcome

\* ------------------------------------------------------------------------
\* moya.util.background
\* ------------------------------------------------------------------------
\* a wrapper without the except clause: the task ends with the exception
background_task_wrapper_unguarded(outcome) == outcome

\* background_task_wrapper, on the outcome of the task it awaits: an
\* Exception is logged and the wrapper returns
background_task_wrapper(outcome) == Ok

\* ------------------------------------------------------------------------
\* RedisLimiter
\* ------------------------------------------------------------------------
\* check_rates: one zcount per window, then count >= limit raises
check_rates(st, k, t_now, rs) ==
    IF \E i \in 1..Len(rs) : ZCount(st, k, t_now - rs[i][2], t_now) >= rs[i][1]
    THEN RateLimitExceeded
    ELSE Ok

\* update_rates: zadd, expire, zremrangebyscore in one pipeline, for a call
\* made at t_now and a pipeline run by the store at t_exec
update_rates(st, k, t_now, rl, t_exec) ==
    LET added == ZAdd(st, k, PyStr(t_now), t_now)
        expiring == Expire(added, k, max_duration(rl), t_exec)
    IN ZRemRangeByScore(expiring, k, 0, t_now - max_duration(rl))

\* the outcome of the coroutine update_rates when the store gives the answer
\* write to its pipeline: self.rates.max_duration is rates[-1][1], an
\* IndexError when no field of the RateLimit is set, raised before the
\* pipeline is executed
update_rates_outcome(rl, write) ==
    IF rates(rl) = <<>> THEN IndexError
    ELSE IF write = Up THEN Ok ELSE write

\* the outcome of a coroutine that makes one round trip and raises nothing
\* of its own (cleanup_rates, reset_redis)
round_trip_outcome(answer) == IF answer = Up THEN Ok ELSE answer

\* cleanup_rates of RedisLimiter.flush_user
cleanup_rates(st, k) == Delete(st, {k})

\* reset_redis of RedisLimiter.reset
reset_redis(st, base_key) == Delete(st, Scan(st, key(base_key, <<"*">>)))

\* the keyspace of the store in the order the cursor of scan goes through
\* it: one slot for each key the limiters can hold
KeySlots ==
    << key(<<"a", "p", "i">>, <<"a">>),
       key(<<"a", "p", "i", ":", "v">>, <<"b">>),
       key(<<"a", "p", "i">>, <<"v", ":", "a">>),
       key(<<"a", "p", "i">>, <<"b">>),
       key(<<"a", "p", "i", ":", "v">>, <<"v", ":", "a">>) >>

\* redis.scan(cursor, match=pattern, count=count): the keys of the next
\* count slots that exist and match, and the cursor of the next call, 0
\* when the keyspace has been gone through
scan(st, cursor, pattern, count) ==
    LET upto == IF cursor + count < Len(KeySlots) THEN cursor + count
                ELSE Len(KeySlots)
        visited == { KeySlots[i] : i \in (cursor + 1)..upto }
    IN [cursor |-> IF upto = Len(KeySlots) THEN 0 ELSE upto,
        keys |-> { k \in visited \cap DOMAIN st : GlobMatch(pattern, k) }]

\* a loop of reset_redis that ends with the first page without keys
reset_redis_break_on_empty_page(cursor, keys) == keys = {}

\* reset_redis: `if cursor == 0: break`
reset_redis_break(cursor, keys) == cursor = 0

\* RedisLimiter.try_ratelimit for the key k at t_now on the store st; read
\* and write are the answers of the store to the two round trips, nbg is
\* _never_run_in_background.  res is what the call returns or raises,
\* detached says that the write was left to a background task.
RedisTryRatelimit(st, k, t_now, rl, read, write, nbg) ==
    LET \* await redis_try_run(check_rates, readonly=True)
        checked == redis_try_run(IF read = Up
                                 THEN check_rates(st, k, t_now, rates(rl))
                                 ELSE read)
        \* redis_try_run(update_rates)
        written == update_rates_outcome(rl, write)
    IN IF checked # Ok
       THEN [res |-> checked, store |-> st, detached |-> FALSE]
       ELSE IF nbg
            THEN \* await task
                 [res |-> redis_try_run(written),
                  store |-> IF written = Ok
                            THEN update_rates(st, k, t_now, rl, t_now)
                            ELSE st,
                  detached |-> FALSE]
            ELSE \* asyncio.create_task(background_task_wrapper(task))
                 [res |-> Ok, store |-> st, detached |-> TRUE]

\* ------------------------------------------------------------------------
\* moya.util.fastapi_ratelimit
\* ------------------------------------------------------------------------
\* the wildcard entry of APP_RATELIMITS
Star == <<"*">>

MemLimiter == "MemLimiter"

RedisLimiter == "RedisLimiter"

\* LimitBase.__init__: len(self.key("")) < 4 raises ValueError
LimitBaseInit(base_key) ==
    IF Len(key(base_key, <<>>)) < 4 THEN ValueError ELSE Ok

\* a get that takes the caller's default before the wildcard entry
get_default_before_wildcard(ratelimits, endpoint, default) ==
    IF endpoint \in DOMAIN ratelimits
    THEN [res |-> Ok, rates |-> ratelimits[endpoint]]
    ELSE IF default # None
         THEN [res |-> Ok, rates |-> default[1]]
         ELSE IF Star \in DOMAIN ratelimits
              THEN [res |-> Ok, rates |-> ratelimits[Star]]
              ELSE [res |-> KeyError]

\* RateLimitSettings.get(endpoint, default); default is None or Some(rl)
get(ratelimits, endpoint, default) ==
    IF endpoint \in DOMAIN ratelimits
    THEN [res |-> Ok, rates |-> ratelimits[endpoint]]
    ELSE IF Star \in DOMAIN ratelimits
         THEN [res |-> Ok, rates |-> ratelimits[Star]]
         ELSE IF default # None
              THEN [res |-> Ok, rates |-> default[1]]
              ELSE [res |-> KeyError]

\* RateLimiter(name, user_id_decorator, default_limits, limiter_class):
\* settings.get(name, default_limits), then limiter_class(rates, name), then
\* _RateLimiter(limiter).  The adapter is held with the limiter it owns: a
\* MemLimiter has its own _limits, a RedisLimiter has no state of its own.
RateLimiter(ratelimits, name, default_limits, limiter_class) ==
    LET got == get(ratelimits, name, default_limits)
    IN IF got.res # Ok THEN [res |-> got.res]
       ELSE IF LimitBaseInit(name) # Ok THEN [res |-> LimitBaseInit(name)]
       ELSE [res |-> Ok,
             adapter |-> [name |-> name, rates |-> got.rates,
                          limiter_class |-> limiter_class, limits |-> MemReset]]

NullFn == "_null_fn"

Fn == "fn"

\* a dependency that never looks at is_empty
dependency_always_fn(adapter) == Fn

\* _RateLimiter.dependency: Depends(_null_fn) for an empty RateLimit
dependency(adapter) == IF is_empty(adapter.rates) THEN NullFn ELSE Fn

\* an fn that takes a request without identity as the user ""
fn_user_anonymous(who) == IF who = None THEN << <<>> >> ELSE who

\* fn: `if user_id is None: return`; the user ids the limiter is called
\* with for the resolved identity who (None or Some(user_id)): one or none
fn_user(who) == IF who = None THEN <<>> ELSE who

\* the request goes on to the handler
Proceeds == "proceeds"

\* HTTPException(status_code=status.HTTP_429_TOO_MANY_REQUESTS)
HTTP_429_TOO_MANY_REQUESTS == "429"

\* an fn without the except clause
fn_response_untranslated(outcome) ==
    IF outcome \in {Ok, NoResult} THEN Proceeds ELSE outcome

\* fn: what leaves the dependency for the outcome of try_ratelimit (NoResult:
\* the limiter was not called); RateLimitExceeded becomes the HTTPException,
\* any other exception goes on as it is
fn_response(outcome) ==
    IF outcome = RateLimitExceeded THEN HTTP_429_TOO_MANY_REQUESTS
    ELSE IF outcome \in {Ok, NoResult} THEN Proceeds
    ELSE outcome

\* try_ratelimit(user_id) of the limiter the adapter owns
LimiterTryRatelimit(adapter, st, u, t_now, nbg) ==
    LET k == key(adapter.name, u)
    IN IF adapter.limiter_class = MemLimiter
       THEN LET mem == MemTryRatelimit(adapter.limits, k, t_now, rates(adapter.rates))
            IN [res |-> mem.res, limits |-> mem.limits, store |-> st,
                detached |-> FALSE]
       ELSE LET redis == RedisTryRatelimit(st, k, t_now, adapter.rates, Up, Up, nbg)
            IN [res |-> redis.res, limits |-> adapter.limits,
                store |-> redis.store, detached |-> redis.detached]

\* _RateLimiter.reset_user(user_id): limiter.flush_user(user_id)
reset_user(adapter, st, u) ==
    LET k == key(adapter.name, u)
    IN IF adapter.limiter_class = MemLimiter
       THEN LET mem == MemFlushUser(adapter.limits, k)
            IN [res |-> mem.res, limits |-> mem.limits, store |-> st]
       ELSE [res |-> redis_try_run(round_trip_outcome(Up)),
             limits |-> adapter.limits, store |-> cleanup_rates(st, k)]

\* the adapter registers itself in the process-wide list at construction
register(reg, i) == Append(reg, i)

\* reset_all_ratelimiters_for_user(user_id): reset_user on every registered
\* adapter in turn, from the j-th on; an exception ends the walk
RECURSIVE reset_all_ratelimiters_for_user(_, _, _, _, _)
reset_all_ratelimiters_for_user(reg, ads, st, u, j) ==
    IF j > Len(reg) THEN [res |-> Ok, adapters |-> ads, store |-> st]
    ELSE LET flushed == reset_user(ads[reg[j]], st, u)
         IN IF flushed.res # Ok
            THEN [res |-> flushed.res, adapters |-> ads, store |-> st]
            ELSE reset_all_ratelimiters_for_user(
                     reg, [ads EXCEPT ![reg[j]].limits = flushed.limits],
                     flushed.store, u, j + 1)

\* ------------------------------------------------------------------------
\* moya.util.asyncpool
\* ------------------------------------------------------------------------
\* a worker task: waiting in queue.get(), inside fn(item), or ended
Worker(pc, item) == [pc |-> pc, item |-> item, cancel |-> FALSE]

\* asyncpool_queue up to its yield: the queue and worker_count tasks of
\* _run_worker, created with force_run_in_background.  handled[i] counts the
\* calls fn(i), raised holds the items fn raised for, logged counts the
\* "Error processing item" records.
asyncpool_queue(worker_count, maxsize) ==
    [pc |-> "body", maxsize |-> maxsize, queue |-> <<>>, unfinished |-> 0,
     workers |-> [w \in 1..worker_count |-> Worker("get", 0)],
     handled |-> [i \in 1..MaxItems |-> 0], raised |-> {}, logged |-> 0,
     put |-> 0]

\* asyncio.Queue.full()
queue_full(p) == p.maxsize > 0 /\ Len(p.queue) >= p.maxsize

\* asyncio.Queue.put(item), when the queue is not full
put(p, item) ==
    [p EXCEPT !.queue = Append(@, item), !.unfinished = @ + 1, !.put = @ + 1]

\* asyncio.Queue.task_done()
task_done(p) == [p EXCEPT !.unfinished = @ - 1]

\* _run_worker: item = await queue.get(), then fn(item) is called
run_worker_get(p, w) ==
    LET item == Head(p.queue)
    IN [p EXCEPT !.queue = Tail(@), !.workers[w] = Worker("fn", item),
                 !.handled[item] = @ + 1]

\* a _run_worker without the except clause: the exception of fn ends the
\* worker, after the finally clause
run_worker_fn_unguarded(p, w, raises) ==
    IF raises
    THEN task_done([p EXCEPT !.raised = @ \cup {p.workers[w].item},
                             !.workers[w] = Worker("done", 0)])
    ELSE task_done([p EXCEPT !.workers[w] = Worker("get", 0)])

\* _run_worker: fn(item) returns or raises an Exception, which is logged;
\* queue.task_done() in the finally clause; back to queue.get()
run_worker_fn(p, w, raises) ==
    IF raises
    THEN task_done([p EXCEPT !.raised = @ \cup {p.workers[w].item},
                             !.logged = @ + 1,
                             !.workers[w] = Worker("get", 0)])
    ELSE task_done([p EXCEPT !.workers[w] = Worker("get", 0)])

\* worker.cancel() for every worker
cancel_workers(p) ==
    [p EXCEPT !.workers = [w \in DOMAIN p.workers |->
                             IF p.workers[w].pc = "done" THEN p.workers[w]
                             ELSE [p.workers[w] EXCEPT !.cancel = TRUE]]]

\* CancelledError is thrown into a worker at its await: in queue.get() it
\* leaves the loop; in fn(item) it is no Exception, so only the finally
\* clause runs; background_task_wrapper ends the task
run_worker_cancelled(p, w) ==
    IF p.workers[w].pc = "fn"
    THEN task_done([p EXCEPT !.workers[w] = Worker("done", 0)])
    ELSE [p EXCEPT !.workers[w] = Worker("done", 0)]

\* ------------------------------------------------------------------------
\* State
\* ------------------------------------------------------------------------
VARIABLES
    now,                        \* time.time()
    users,                      \* the user ids that make calls
    cfg,                        \* the RateLimit of the limiters
    never_run_in_background,    \* moya.util.background._never_run_in_background
    limits,                     \* MemLimiter._limits of each limiter
    store,                      \* the shared store of the RedisLimiters
    tasks,                      \* background tasks created and not yet run
    last,                       \* the last operation and its two outcomes
    admitted,                   \* times of the calls RedisLimiter admitted
                                \* for (base_key, user) since its last flush
    clean,                      \* the store has always answered and every
                                \* call started with no background task left
    trace,                      \* the calls of the scenario, in order
    answers,                    \* what the store answered to the round trips
                                \* of the last operation
    settings,                   \* RateLimitSettings.ratelimits (APP_RATELIMITS)
    adapters,                   \* the _RateLimiter objects constructed, each
                                \* with the limiter it owns
    registry,                   \* the process-wide list of adapters
    http,                       \* the last operation on the adapters and what
                                \* it answered
    calls,                      \* RedisLimiter.try_ratelimit and reset calls
                                \* in flight
    peak,                       \* the largest number of calls in flight so far
    conns,                      \* the connections redis() handed out: acquired
                                \* and closed, and how the last one ended
    pool,                       \* the asyncpool_queue context: its queue, its
                                \* workers and what they did
    runner,                     \* KafkaRunner and the topic it consumes
    client                      \* KafkaBase: the started future, the client
                                \* and the task of _start()

vars == <<now, users, cfg, never_run_in_background, limits, store, tasks, last,
          admitted, clean, trace, answers, settings, adapters, registry, http,
          calls, peak, conns, pool, runner, client>>

\* the state of the limiters
limiter_vars == <<now, users, cfg, never_run_in_background, limits, store,
                  tasks, last, admitted, clean, trace, answers>>

\* the state of the request-gating adapters
adapter_vars == <<settings, adapters, registry, http>>

\* the state of the calls in flight
flight_vars == <<calls, peak>>

\* the state of moya.service.redis, moya.util.asyncpool and
\* moya.service.kafka*
service_vars == <<conns, pool, runner, client>>

RECURSIVE SumLen(_, _)
SumLen(f, dom) ==
    IF dom = {} THEN 0
    ELSE LET x == CHOOSE y \in dom : TRUE
         IN Len(f[x]) + SumLen(f, dom \ {x})

\* number of timestamps the MemLimiters hold
MemTotal ==
    LET all == [p \in BaseKeys \X users |->
                  IF key(p[1], p[2]) \in DOMAIN limits[p[1]]
                  THEN limits[p[1]][key(p[1], p[2])] ELSE <<>>]
    IN SumLen(all, BaseKeys \X users)

\* number of calls the RedisLimiters admitted
AdmittedTotal ==
    SumLen([p \in BaseKeys \X users |-> admitted[p[1]][p[2]]], BaseKeys \X users)

\* no operation on the adapters yet
NoRequest == [op |-> "init"]

Op(op, b, u, mem, redis) ==
    [op |-> op, base |-> b, user |-> u, mem |-> mem, redis |-> redis]


\* no asyncpool_queue context entered
NoPool == [pc |-> "idle"]

\* no KafkaRunner running: nothing of the topic is committed for the
\* consumer group and no record was processed
NoRunner ==
    [pc |-> "idle", kafka_batch_size |-> 0, position |-> 0, committed |-> 0,
     batch |-> <<>>, done |-> {}, crashes |-> 0]

\* no KafkaBase constructed
NoClient == [pc |-> "idle"]

InitWith(configs, usersets) ==
    /\ now = 0
    /\ users \in usersets
    /\ cfg \in configs
    /\ never_run_in_background \in BOOLEAN
    /\ limits = [b \in BaseKeys |-> MemReset]
    /\ store = EmptyDict
    /\ tasks = EmptyBag
    /\ last = Op("init", <<>>, <<>>, NoResult, NoResult)
    /\ admitted = [b \in BaseKeys |-> [u \in AllUsers |-> <<>>]]
    /\ clean = TRUE
    /\ trace = <<>>
    /\ answers = <<>>
    /\ settings = EmptyDict
    /\ adapters = <<>>
    /\ registry = <<>>
    /\ http = NoRequest
    /\ calls = EmptyBag
    /\ peak = 0
    /\ conns = NoConns
    /\ pool = NoPool
    /\ runner = NoRunner
    /\ client = NoClient

\* the callers of the general specification are ColonUsers: two users of one
\* limiter, one of them with an id that contains the separator of key()
Init == InitWith(Configs, {ColonUsers})

\* ------------------------------------------------------------------------
\* Operations
\* ------------------------------------------------------------------------
\* try_ratelimit(user_id) on the limiters with base_key b; read and write are
\* the answers of the store to the two round trips
Try(b, u, read, write) ==
    LET k == key(b, u)
        mem == MemTryRatelimit(limits[b], k, now, rates(cfg))
        redis == RedisTryRatelimit(store, k, now, cfg, read, write,
                                   never_run_in_background)
        admits == redis_try_run(IF read = Up
                                THEN check_rates(store, k, now, rates(cfg))
                                ELSE read) = Ok
        task == [key |-> k, now |-> now, base |-> b, user |-> u]
    IN /\ limits' = [limits EXCEPT ![b] = mem.limits]
       /\ store' = redis.store
       /\ tasks' = IF redis.detached THEN tasks (+) SetToBag({task}) ELSE tasks
       /\ last' = Op("try", b, u, mem.res, redis.res)
       /\ admitted' = IF admits THEN [admitted EXCEPT ![b][u] = Append(@, now)]
                      ELSE admitted
       /\ clean' = (clean /\ tasks = EmptyBag
                         /\ (admits => read = Up)
                         /\ ((admits /\ never_run_in_background) => write = Up))
       /\ answers' = <<read, write>>
       /\ UNCHANGED <<now, users, cfg, never_run_in_background>>

\* the background task of run_in_background(redis_try_run(update_rates));
\* background_task_wrapper logs whatever the task raises
Background(task, write) ==
    /\ BagIn(task, tasks)
    /\ tasks' = tasks (-) SetToBag({task})
    /\ store' = IF update_rates_outcome(cfg, write) = Ok
                THEN update_rates(store, task.key, task.now, cfg, now)
                ELSE store
    /\ clean' = (clean /\ write = Up)
    /\ last' = Op("background", task.base, task.user, NoResult,
                  background_task_wrapper(
                      redis_try_run(update_rates_outcome(cfg, write))))
    /\ answers' = <<write>>
    /\ UNCHANGED <<now, users, cfg, never_run_in_background, limits, admitted>>

\* flush_user(user_id) on the limiters with base_key b
Flush(b, u, answer) ==
    LET k == key(b, u)
        mem == MemFlushUser(limits[b], k)
    IN /\ limits' = [limits EXCEPT ![b] = mem.limits]
       /\ store' = IF answer = Up THEN cleanup_rates(store, k) ELSE store
       /\ admitted' = [admitted EXCEPT ![b][u] = <<>>]
       /\ clean' = (clean /\ tasks = EmptyBag /\ answer = Up)
       /\ last' = Op("flush", b, u, mem.res,
                     redis_try_run(round_trip_outcome(answer)))
       /\ answers' = <<answer>>
       /\ UNCHANGED <<now, users, cfg, never_run_in_background, tasks>>

\* reset() on the limiters with base_key b
ResetAll(b, answer) ==
    /\ limits' = [limits EXCEPT ![b] = MemReset]
    /\ store' = IF answer = Up THEN reset_redis(store, b) ELSE store
    /\ admitted' = [admitted EXCEPT ![b] = [u \in AllUsers |-> <<>>]]
    /\ clean' = (clean /\ tasks = EmptyBag /\ answer = Up)
    /\ last' = Op("reset", b, <<>>, Ok,
                  redis_try_run(round_trip_outcome(answer)))
    /\ answers' = <<answer>>
    /\ UNCHANGED <<now, users, cfg, never_run_in_background, tasks>>

\* time passes up to the instant t
Advance(t) ==
    /\ t > now
    /\ now' = t
    /\ store' = Purge(store, t)
    /\ last' = Op("tick", <<>>, <<>>, NoResult, NoResult)
    /\ answers' = <<>>
    /\ UNCHANGED <<users, cfg, never_run_in_background, limits, tasks, admitted, clean>>

\* ------------------------------------------------------------------------
\* Specification of the two backends under calls made one after another:
\* a call starts when the background task of the call before it has run,
\* and the store answers every round trip
\* ------------------------------------------------------------------------
StoreUp == {Up}

TryRatelimit ==
    /\ tasks = EmptyBag
    /\ MemTotal < MaxEvents
    /\ AdmittedTotal < MaxEvents
    /\ \E b \in BaseKeys, u \in users, read \in StoreUp, write \in StoreUp :
         Try(b, u, read, write)
    /\ UNCHANGED <<trace, adapter_vars, flight_vars, service_vars>>

BackgroundTask ==
    /\ \E task \in BagToSet(tasks), write \in StoreUp : Background(task, write)
    /\ UNCHANGED <<trace, adapter_vars, flight_vars, service_vars>>

FlushUser ==
    /\ tasks = EmptyBag
    /\ \E b \in BaseKeys, u \in users, answer \in StoreUp : Flush(b, u, answer)
    /\ UNCHANGED <<trace, adapter_vars, flight_vars, service_vars>>

Reset ==
    /\ tasks = EmptyBag
    /\ \E b \in BaseKeys, answer \in StoreUp : ResetAll(b, answer)
    /\ UNCHANGED <<trace, adapter_vars, flight_vars, service_vars>>

Tick ==
    /\ \E t \in TimePoints(MaxSec, 0, 0) : Advance(t)
    /\ UNCHANGED <<trace, adapter_vars, flight_vars, service_vars>>

Next == TryRatelimit \/ BackgroundTask \/ FlushUser \/ Reset \/ Tick

Spec == Init /\ [][Next]_vars

\* the same with user ids without ':' only: distinct (base_key, user_id)
\* pairs have distinct keys
InitPlain == InitWith(Configs, {PlainUsers})

SpecPlain == InitPlain /\ [][Next]_vars

\* the same with try_ratelimit calls only
NextCalls == TryRatelimit \/ BackgroundTask \/ Tick

SpecCalls == InitPlain /\ [][NextCalls]_vars

\* ------------------------------------------------------------------------
\* Specification of the two backends when the store may fail: every round
\* trip is answered, or raises ConnectionError, TimeoutError or RedisError
\* ------------------------------------------------------------------------
InitFaults == InitWith({RateLimit(Some(1), None, None, None)}, {PlainUsers})

TryRatelimitFaults ==
    /\ tasks = EmptyBag
    /\ MemTotal < FaultMaxEvents
    /\ AdmittedTotal < FaultMaxEvents
    /\ \E u \in users, read \in StoreAnswers, write \in StoreAnswers :
         Try(ScenarioBase, u, read, write)
    /\ UNCHANGED <<trace, adapter_vars, flight_vars, service_vars>>

BackgroundTaskFaults ==
    /\ \E task \in BagToSet(tasks), write \in StoreAnswers : Background(task, write)
    /\ UNCHANGED <<trace, adapter_vars, flight_vars, service_vars>>

FlushUserFaults ==
    /\ tasks = EmptyBag
    /\ \E u \in users, answer \in StoreAnswers : Flush(ScenarioBase, u, answer)
    /\ UNCHANGED <<trace, adapter_vars, flight_vars, service_vars>>

ResetFaults ==
    /\ tasks = EmptyBag
    /\ \E answer \in StoreAnswers : ResetAll(ScenarioBase, answer)
    /\ UNCHANGED <<trace, adapter_vars, flight_vars, service_vars>>

NextFaults ==
    TryRatelimitFaults \/ BackgroundTaskFaults \/ FlushUserFaults \/ ResetFaults
        \/ Tick

SpecFaults == InitFaults /\ [][NextFaults]_vars

\* ------------------------------------------------------------------------
\* Specification of the two backends constructed with RateLimit(): no field
\* set
\* ------------------------------------------------------------------------
InitEmpty == InitWith({RateLimit(None, None, None, None)}, {PlainUsers})

SpecEmpty == InitEmpty /\ [][NextCalls]_vars

\* ------------------------------------------------------------------------
\* Specification of the writes of RedisLimiter.try_ratelimit: the store may
\* fail, and the limiter has a RateLimit with a window or with no field set,
\* for which the write raises an exception of its own
\* ------------------------------------------------------------------------
InitWrites ==
    InitWith({ RateLimit(Some(1), None, None, None),
               RateLimit(None, None, None, None) }, {PlainUsers})

SpecWrites == InitWrites /\ [][NextFaults]_vars

\* ------------------------------------------------------------------------
\* Specification of asyncpool_queue: the context is entered, the body puts
\* items MaxItems at most, the workers take them and call fn, which returns
\* or raises, and the context exits
\* ------------------------------------------------------------------------
\* async with asyncpool_queue(fn, worker_count, maxsize) as queue
PoolEnter ==
    /\ pool.pc = "idle"
    /\ \E worker_count \in 0..MaxWorkers, maxsize \in 0..MaxQueueSize :
         pool' = asyncpool_queue(worker_count, maxsize)
    /\ UNCHANGED <<limiter_vars, adapter_vars, flight_vars, conns, runner, client>>

\* await queue.put(item) in the body; it waits while the queue is full
PoolPut ==
    /\ pool.pc = "body"
    /\ pool.put < MaxItems
    /\ ~queue_full(pool)
    /\ pool' = put(pool, pool.put + 1)
    /\ UNCHANGED <<limiter_vars, adapter_vars, flight_vars, conns, runner, client>>

\* a worker gets the next item
WorkerGet ==
    /\ pool.pc # "idle"
    /\ pool.queue # <<>>
    /\ \E w \in DOMAIN pool.workers :
         /\ pool.workers[w].pc = "get"
         /\ ~pool.workers[w].cancel
         /\ pool' = run_worker_get(pool, w)
    /\ UNCHANGED <<limiter_vars, adapter_vars, flight_vars, conns, runner, client>>

\* fn(item) of a worker ends
WorkerFn ==
    /\ pool.pc # "idle"
    /\ \E w \in DOMAIN pool.workers, raises \in BOOLEAN :
         /\ pool.workers[w].pc = "fn"
         /\ ~pool.workers[w].cancel
         /\ pool' = run_worker_fn(pool, w, raises)
    /\ UNCHANGED <<limiter_vars, adapter_vars, flight_vars, conns, runner, client>>

\* a cancelled worker runs again
WorkerCancelled ==
    /\ pool.pc # "idle"
    /\ \E w \in DOMAIN pool.workers :
         /\ pool.workers[w].pc # "done"
         /\ pool.workers[w].cancel
         /\ pool' = run_worker_cancelled(pool, w)
    /\ UNCHANGED <<limiter_vars, adapter_vars, flight_vars, conns, runner, client>>

\* the body ends, normally or with an exception: the finally clause starts
\* with await queue.join()
PoolExit ==
    /\ pool.pc = "body"
    /\ pool' = [pool EXCEPT !.pc = "join"]
    /\ UNCHANGED <<limiter_vars, adapter_vars, flight_vars, conns, runner, client>>

\* queue.join() returns when every item put was followed by a task_done();
\* then every worker is cancelled and gathered
PoolJoined ==
    /\ pool.pc = "join"
    /\ pool.unfinished = 0
    /\ pool' = [cancel_workers(pool) EXCEPT !.pc = "gather"]
    /\ UNCHANGED <<limiter_vars, adapter_vars, flight_vars, conns, runner, client>>

\* asyncio.gather(*workers, return_exceptions=True) returns
PoolGathered ==
    /\ pool.pc = "gather"
    /\ \A w \in DOMAIN pool.workers : pool.workers[w].pc = "done"
    /\ pool' = [pool EXCEPT !.pc = "exited"]
    /\ UNCHANGED <<limiter_vars, adapter_vars, flight_vars, conns, runner, client>>

NextPool ==
    PoolEnter \/ PoolPut \/ WorkerGet \/ WorkerFn \/ WorkerCancelled
        \/ PoolExit \/ PoolJoined \/ PoolGathered

\* no limiter is used
InitPool == InitWith({RateLimit(None, None, None, None)}, {PlainUsers})

SpecPool == InitPool /\ [][NextPool]_vars

\* ------------------------------------------------------------------------
\* Specification of KafkaRunner.run on a topic with the records 1..MaxItems:
\* batches are fetched and put on the queue of the pool, the workers run
\* _process_record, the consumer commits by itself (enable_auto_commit), and
\* the process may exit at any point and be started again
\* ------------------------------------------------------------------------
\* KafkaRunner(...).run(): the consumer starts at the committed offset of
\* its group and the pool is entered
RunnerStart ==
    /\ runner.pc = "idle"
    /\ \E kafka_batch_size \in 1..MaxBatch, process_batch_size \in 1..MaxWorkers :
         /\ runner' = [runner EXCEPT !.pc = "getmany",
                                      !.kafka_batch_size = kafka_batch_size,
                                      !.position = runner.committed,
                                      !.batch = <<>>]
         /\ pool' = asyncpool_queue(process_batch_size, process_batch_size * 3)
    /\ UNCHANGED <<limiter_vars, adapter_vars, flight_vars, conns, client>>

\* records = await self.consumer.getmany(max_records=self.kafka_batch_size):
\* n records from the position on, none when getmany raised or timed out
GetMany ==
    /\ runner.pc = "getmany"
    /\ \E n \in 0..runner.kafka_batch_size :
         /\ runner.position + n <= MaxItems
         /\ runner' = [runner EXCEPT
                          !.position = @ + n,
                          !.batch = [i \in 1..n |-> runner.position + i],
                          !.pc = "put"]
    /\ UNCHANGED <<limiter_vars, adapter_vars, flight_vars, conns, pool, client>>

\* await queue.put(record) for the next record of the batch, then
\* await queue.join()
RunnerPut ==
    /\ runner.pc = "put"
    /\ IF runner.batch = <<>>
       THEN /\ runner' = [runner EXCEPT !.pc = "join"]
            /\ pool' = pool
       ELSE /\ ~queue_full(pool)
            /\ pool' = put(pool, Head(runner.batch))
            /\ runner' = [runner EXCEPT !.batch = Tail(@)]
    /\ UNCHANGED <<limiter_vars, adapter_vars, flight_vars, conns, client>>

\* queue.join() of run() returns
RunnerJoined ==
    /\ runner.pc = "join"
    /\ pool.unfinished = 0
    /\ runner' = [runner EXCEPT !.pc = "getmany"]
    /\ UNCHANGED <<limiter_vars, adapter_vars, flight_vars, conns, pool, client>>

\* a worker of the pool gets a record
RunnerWorkerGet ==
    /\ runner.pc # "idle"
    /\ pool.queue # <<>>
    /\ \E w \in DOMAIN pool.workers :
         /\ pool.workers[w].pc = "get"
         /\ pool' = run_worker_get(pool, w)
    /\ UNCHANGED <<limiter_vars, adapter_vars, flight_vars, conns, runner, client>>

\* _process_record(record) of a worker returns: the record was processed,
\* skipped or logged as an error; it raises nothing
ProcessRecord ==
    /\ runner.pc # "idle"
    /\ \E w \in DOMAIN pool.workers :
         /\ pool.workers[w].pc = "fn"
         /\ pool' = run_worker_fn(pool, w, FALSE)
         /\ runner' = [runner EXCEPT !.done = @ \cup {pool.workers[w].item}]
    /\ UNCHANGED <<limiter_vars, adapter_vars, flight_vars, conns, client>>

\* enable_auto_commit=True: the consumer commits the position it has
\* reached, every auto_commit_interval_ms
AutoCommit ==
    /\ runner.pc # "idle"
    /\ runner.committed # runner.position
    /\ runner' = [runner EXCEPT !.committed = runner.position]
    /\ UNCHANGED <<limiter_vars, adapter_vars, flight_vars, conns, pool, client>>

\* the process exits: queue, workers and position are gone; the committed
\* offset and the work done on the records remain
ProcessExit ==
    /\ runner.pc # "idle"
    /\ runner.crashes < MaxCrashes
    /\ runner' = [runner EXCEPT !.pc = "idle", !.batch = <<>>,
                                 !.crashes = @ + 1]
    /\ pool' = NoPool
    /\ UNCHANGED <<limiter_vars, adapter_vars, flight_vars, conns, client>>

NextRunner ==
    RunnerStart \/ GetMany \/ RunnerPut \/ RunnerJoined \/ RunnerWorkerGet
        \/ ProcessRecord \/ AutoCommit \/ ProcessExit

SpecRunner == InitPool /\ [][NextRunner]_vars

\* ------------------------------------------------------------------------
\* moya.service.kafka: KafkaBase
\* ------------------------------------------------------------------------
\* what `await self.kafka.start()` does
KafkaStartOutcomes == {Ok, "KafkaConnectionError", "Error"}

\* KafkaBase(settings, startup_timeout): no future, the client not started,
\* no _start() called
KafkaBase(startup_timeout) ==
    [pc |-> "constructed", startup_timeout |-> startup_timeout,
     started |-> "None", running |-> FALSE, starts |-> <<>>]

\* a call of _start(), awaited by run() itself (foreground) or a task
StartTask(foreground) == [pc |-> "ready", i |-> 0, foreground |-> foreground]

\* where run() is once the call n of _start() has come to pc: a call in the
\* foreground lets run() go on to the yield or raises out of run()
run_after_start(c, n, pc) ==
    IF ~c.starts[n].foreground THEN c.pc
    ELSE IF pc = "returned" THEN "body"
    ELSE IF pc = "raised" THEN "raised"
    ELSE c.pc

\* _start(), one pass of the loop after `await self.kafka.start()` ended
\* with outcome: set_result and return; or log KafkaConnectionError and
\* sleep; any other exception, and the one of set_result on a future that
\* is done or None, leaves _start()
start_attempt(c, n, outcome) ==
    LET pc == IF outcome = Ok
              THEN (IF c.started = "pending" THEN "returned" ELSE "raised")
              ELSE IF outcome = "KafkaConnectionError" THEN "sleeping"
              ELSE "raised"
    IN [c EXCEPT !.running = IF outcome = Ok THEN TRUE ELSE @,
                 !.started = IF outcome = Ok /\ @ = "pending" THEN "done" ELSE @,
                 !.starts[n].pc = pc,
                 !.starts[n].i = IF pc = "sleeping" THEN @ + 1 ELSE @,
                 !.pc = run_after_start(c, n, pc)]

\* _start() after `await asyncio.sleep(1)`: the next pass of the loop, or
\* Exception("Timeout connecting to Kafka") after startup_timeout passes
start_next(c, n) ==
    LET pc == IF c.starts[n].i < c.startup_timeout THEN "ready" ELSE "raised"
    IN [c EXCEPT !.starts[n].pc = pc, !.pc = run_after_start(c, n, pc)]

\* stop(): `if self.started and self.started.done()` the client is stopped
\* and the future forgotten
stop(c) ==
    IF c.started = "done"
    THEN [c EXCEPT !.running = FALSE, !.started = "None"]
    ELSE c

\* ------------------------------------------------------------------------
\* Specification of KafkaBase.run(): a client is constructed, the context is
\* entered MaxRuns times at most, _start() connects in the foreground or in
\* a background task, and the body of the context ends at any point
\* ------------------------------------------------------------------------
KafkaConstruct ==
    /\ client = NoClient
    /\ \E startup_timeout \in 1..MaxStartupTimeout :
         client' = KafkaBase(startup_timeout)
    /\ UNCHANGED <<limiter_vars, adapter_vars, flight_vars, conns, pool, runner>>

\* async with k.run(): _initialize, run_in_background(self._start())
KafkaRun ==
    /\ client.pc \in {"constructed", "exited", "raised"}
    /\ Len(client.starts) < MaxRuns
    /\ client' = [client EXCEPT
                     !.started = "pending",
                     !.starts = Append(@, StartTask(never_run_in_background)),
                     !.pc = IF never_run_in_background THEN "entering"
                            ELSE "body"]
    /\ UNCHANGED <<limiter_vars, adapter_vars, flight_vars, conns, pool, runner>>

\* _start() calls self.kafka.start()
KafkaStartCall ==
    /\ client # NoClient
    /\ \E n \in DOMAIN client.starts :
         /\ client.starts[n].pc = "ready"
         /\ client' = [client EXCEPT !.starts[n].pc = "connecting"]
    /\ UNCHANGED <<limiter_vars, adapter_vars, flight_vars, conns, pool, runner>>

\* self.kafka.start() returns or raises
KafkaStartResult ==
    /\ client # NoClient
    /\ \E n \in DOMAIN client.starts, outcome \in KafkaStartOutcomes :
         /\ client.starts[n].pc = "connecting"
         /\ client' = start_attempt(client, n, outcome)
    /\ UNCHANGED <<limiter_vars, adapter_vars, flight_vars, conns, pool, runner>>

\* the sleep between two attempts is over
KafkaStartSlept ==
    /\ client # NoClient
    /\ \E n \in DOMAIN client.starts :
         /\ client.starts[n].pc = "sleeping"
         /\ client' = start_next(client, n)
    /\ UNCHANGED <<limiter_vars, adapter_vars, flight_vars, conns, pool, runner>>

\* the body of the context ends, normally or not: finally: await self.stop()
KafkaExit ==
    /\ client.pc = "body"
    /\ client' = [stop(client) EXCEPT !.pc = "exited"]
    /\ UNCHANGED <<limiter_vars, adapter_vars, flight_vars, conns, pool, runner>>

NextClient ==
    KafkaConstruct \/ KafkaRun \/ KafkaStartCall \/ KafkaStartResult
        \/ KafkaStartSlept \/ KafkaExit

SpecClient == InitPool /\ [][NextClient]_vars

\* ------------------------------------------------------------------------
\* Specification of RedisLimiter.reset with its awaits: the limiters are
\* called, a reset pages through the store, one scan and one delete at a
\* time, while calls may write to the store, the store may fail and the
\* reset may be cancelled
\* ------------------------------------------------------------------------
InitReset == InitWith({RateLimit(Some(1), None, None, None)}, {ColonUsers})

\* a reset in flight saw a write to the store
Raced(cs) ==
    LET resets == BagToSet(cs)
    IN SetToBag({ [call EXCEPT !.raced = TRUE] : call \in resets })

\* try_ratelimit on a limiter, before or during a reset
ResetTry ==
    /\ tasks = EmptyBag
    /\ AdmittedTotal < ResetMaxEvents
    /\ \E b \in BaseKeys, u \in users : Try(b, u, Up, Up)
    /\ calls' = Raced(calls)
    /\ UNCHANGED <<trace, adapter_vars, peak, service_vars>>

\* the background write of a call, before or during a reset
ResetBackground ==
    /\ \E task \in BagToSet(tasks) : Background(task, Up)
    /\ calls' = Raced(calls)
    /\ UNCHANGED <<trace, adapter_vars, peak, service_vars>>

\* reset() is called on the RedisLimiter with base_key b: cursor = 0
BeginReset ==
    /\ calls = EmptyBag
    /\ \E b \in BaseKeys :
         /\ calls' = SetToBag({[pc |-> "scan", base |-> b, cursor |-> 0,
                                keys |-> {}, raced |-> tasks # EmptyBag]})
         /\ last' = Op("reset_begin", b, <<>>, NoResult, NoResult)
    /\ answers' = <<>>
    /\ UNCHANGED <<now, users, cfg, never_run_in_background, limits, store,
                   tasks, admitted, clean, trace, adapter_vars, peak,
                   service_vars>>

\* the reset goes on after a page: the loop ends at cursor 0
ResetGoesOn(call, cursor) ==
    IF reset_redis_break(cursor, call.keys)
    THEN /\ calls' = EmptyBag
         /\ last' = Op("reset_done", call.base, <<>>, NoResult, redis_try_run(Ok))
    ELSE /\ calls' = SetToBag({[call EXCEPT !.pc = "scan", !.cursor = cursor,
                                            !.keys = {}]})
         /\ last' = Op("reset_page", call.base, <<>>, NoResult, NoResult)

\* cursor, keys = await redis.scan(cursor, match=self.key("*"), count=1000)
ResetScan ==
    /\ \E call \in BagToSet(calls), answer \in StoreAnswers :
         /\ call.pc = "scan"
         /\ answers' = <<answer>>
         /\ IF answer # Up
            THEN /\ calls' = EmptyBag
                 /\ last' = Op("reset_failed", call.base, <<>>, NoResult,
                               redis_try_run(round_trip_outcome(answer)))
            ELSE LET page == scan(store, call.cursor,
                                  key(call.base, <<"*">>), ScanCount)
                 IN IF page.keys # {}
                    THEN /\ calls' = SetToBag({[call EXCEPT !.pc = "delete",
                                                            !.cursor = page.cursor,
                                                            !.keys = page.keys]})
                         /\ last' = Op("reset_scanned", call.base, <<>>,
                                       NoResult, NoResult)
                    ELSE ResetGoesOn(call, page.cursor)
    /\ UNCHANGED <<now, users, cfg, never_run_in_background, limits, store,
                   tasks, admitted, clean, trace, adapter_vars, peak,
                   service_vars>>

\* await redis.delete(*keys)
ResetDelete ==
    /\ \E call \in BagToSet(calls), answer \in StoreAnswers :
         /\ call.pc = "delete"
         /\ answers' = <<answer>>
         /\ IF answer # Up
            THEN /\ calls' = EmptyBag
                 /\ last' = Op("reset_failed", call.base, <<>>, NoResult,
                               redis_try_run(round_trip_outcome(answer)))
                 /\ store' = store
            ELSE /\ store' = Delete(store, call.keys)
                 /\ ResetGoesOn(call, call.cursor)
    /\ UNCHANGED <<now, users, cfg, never_run_in_background, limits, tasks,
                   admitted, clean, trace, adapter_vars, peak, service_vars>>

\* the task that awaits reset() is cancelled at one of its awaits
ResetCancel ==
    /\ \E call \in BagToSet(calls) :
         /\ calls' = EmptyBag
         /\ last' = Op("reset_cancelled", call.base, <<>>, NoResult, NoResult)
    /\ answers' = <<>>
    /\ UNCHANGED <<now, users, cfg, never_run_in_background, limits, store,
                   tasks, admitted, clean, trace, adapter_vars, peak,
                   service_vars>>

\* time passes
ResetTick ==
    /\ \E t \in TimePoints(AdapterMaxSec, 0, 0) : Advance(t)
    /\ UNCHANGED <<trace, adapter_vars, flight_vars, service_vars>>

\* a round trip of the reset in flight that the store answers
ResetRoundTrip ==
    /\ answers' = <<Up>>
    /\ ResetScan \/ ResetDelete

NextReset ==
    ResetTry \/ ResetBackground \/ BeginReset \/ ResetScan \/ ResetDelete
        \/ ResetCancel \/ ResetTick

\* the event loop runs a reset that is ready to go on, and the store
\* answers it in the end
SpecReset == InitReset /\ [][NextReset]_vars /\ WF_vars(ResetRoundTrip)

\* ------------------------------------------------------------------------
\* Specification of the connections of the RedisLimiter: every coroutine of
\* try_ratelimit, flush_user and reset runs through redis_try_run, inside
\* `async with redis(...)`; the store may fail
\* ------------------------------------------------------------------------
ConnTry ==
    /\ tasks = EmptyBag
    /\ conns.acquired + 1 < MaxConns
    /\ AdmittedTotal < FaultMaxEvents
    /\ \E u \in users, read \in StoreAnswers, write \in StoreAnswers :
         LET coro == IF read = Up
                     THEN check_rates(store, key(ScenarioBase, u), now, rates(cfg))
                     ELSE read
             checked == RunThroughRedis(conns, coro)
         IN /\ Try(ScenarioBase, u, read, write)
            /\ conns' = IF redis_try_run(coro) = Ok /\ never_run_in_background
                        THEN RunThroughRedis(checked,
                                             update_rates_outcome(cfg, write))
                        ELSE checked
    /\ UNCHANGED <<trace, adapter_vars, flight_vars, pool, runner, client>>

ConnBackground ==
    /\ \E task \in BagToSet(tasks), write \in StoreAnswers :
         /\ Background(task, write)
         /\ conns' = RunThroughRedis(conns, update_rates_outcome(cfg, write))
    /\ UNCHANGED <<trace, adapter_vars, flight_vars, pool, runner, client>>

ConnFlush ==
    /\ tasks = EmptyBag
    /\ conns.acquired < MaxConns
    /\ \E u \in users, answer \in StoreAnswers :
         /\ Flush(ScenarioBase, u, answer)
         /\ conns' = RunThroughRedis(conns, round_trip_outcome(answer))
    /\ UNCHANGED <<trace, adapter_vars, flight_vars, pool, runner, client>>

ConnReset ==
    /\ tasks = EmptyBag
    /\ conns.acquired < MaxConns
    /\ \E answer \in StoreAnswers :
         /\ ResetAll(ScenarioBase, answer)
         /\ conns' = RunThroughRedis(conns, round_trip_outcome(answer))
    /\ UNCHANGED <<trace, adapter_vars, flight_vars, pool, runner, client>>

NextConns == ConnTry \/ ConnBackground \/ ConnFlush \/ ConnReset \/ Tick

SpecConns == InitFaults /\ [][NextConns]_vars

\* ------------------------------------------------------------------------
\* Specification of the request-gating adapters: APP_RATELIMITS is set,
\* adapters are constructed with RateLimiter(), requests pass their
\* dependency one after another, users are reset
\* ------------------------------------------------------------------------
LimitNamed == RateLimit(Some(1), None, None, None)

LimitDefault == RateLimit(None, Some(1), None, None)

LimitNone == RateLimit(None, None, None, None)

\* values of APP_RATELIMITS: an entry for "api", a "*" entry, both, neither
SettingsChoices ==
    { EmptyDict,
      DictSet(EmptyDict, ScenarioBase, LimitNamed),
      DictSet(EmptyDict, Star, LimitNone),
      DictSet(DictSet(EmptyDict, ScenarioBase, LimitNamed), Star, LimitNone) }

\* default_limits of the callers
Defaults == {None, Some(LimitDefault)}

RECURSIVE SumNat(_, _)
SumNat(f, dom) ==
    IF dom = {} THEN 0
    ELSE LET x == CHOOSE y \in dom : TRUE
         IN f[x] + SumNat(f, dom \ {x})

\* number of events the limiters of the adapters hold or are about to write
AdapterEvents ==
    SumNat([i \in 1..Len(adapters) |->
              SumLen(adapters[i].limits, DOMAIN adapters[i].limits)],
           1..Len(adapters))
    + SumNat([k \in DOMAIN store |-> Cardinality(DOMAIN store[k].zset)],
             DOMAIN store)
    + BagCardinality(tasks)

\* the names no adapter was constructed with yet; every endpoint has its own
\* limiter name
FreeNames == BaseKeys \ { adapters[i].name : i \in 1..Len(adapters) }

InitAdapter == InitWith({LimitNone}, {ColonUsers})

\* patch.dict(os.environ, {"APP_RATELIMITS": ...})
SetEnv ==
    /\ FreeNames # {}
    /\ \E m \in SettingsChoices \ {settings} : settings' = m
    /\ http' = [op |-> "setenv"]
    /\ UNCHANGED <<now, users, cfg, never_run_in_background, limits, store,
                   tasks, last, admitted, clean, trace, answers, adapters,
                   registry, flight_vars, service_vars>>

\* RateLimiter(name, ..., default_limits, limiter_class)
Construct ==
    /\ \E name \in FreeNames, default_limits \in Defaults,
          limiter_class \in {MemLimiter, RedisLimiter} :
         LET made == RateLimiter(settings, name, default_limits, limiter_class)
         IN /\ adapters' = IF made.res = Ok THEN Append(adapters, made.adapter)
                           ELSE adapters
            /\ registry' = IF made.res = Ok
                           THEN register(registry, Len(adapters) + 1)
                           ELSE registry
            /\ http' = [op |-> "construct", name |-> name,
                        default_limits |-> default_limits, res |-> made.res]
    /\ UNCHANGED <<now, users, cfg, never_run_in_background, limits, store,
                   tasks, last, admitted, clean, trace, answers, settings,
                   flight_vars, service_vars>>

\* a request of the identity who (None or Some(user_id)) on a route with
\* the dependency of the i-th adapter
Request ==
    /\ tasks = EmptyBag
    /\ AdapterEvents < AdapterMaxEvents
    /\ \E i \in 1..Len(adapters), who \in {None} \cup {Some(u) : u \in users} :
         LET a == adapters[i]
             called == IF dependency(a) = Fn THEN fn_user(who) ELSE <<>>
             tried == LimiterTryRatelimit(a, store, called[1], now,
                                          never_run_in_background)
             task == [key |-> key(a.name, called[1]), now |-> now,
                      base |-> a.name, user |-> called[1], rl |-> a.rates]
         IN IF called = <<>>
            THEN /\ http' = [op |-> "request", adapter |-> i, user |-> who,
                             called |-> FALSE, backend |-> NoResult,
                             response |-> fn_response(NoResult)]
                 /\ UNCHANGED <<adapters, store, tasks>>
            ELSE /\ http' = [op |-> "request", adapter |-> i, user |-> who,
                             called |-> TRUE, backend |-> tried.res,
                             response |-> fn_response(tried.res)]
                 /\ adapters' = [adapters EXCEPT ![i].limits = tried.limits]
                 /\ store' = tried.store
                 /\ tasks' = IF tried.detached THEN tasks (+) SetToBag({task})
                             ELSE tasks
    /\ UNCHANGED <<now, users, cfg, never_run_in_background, limits, last,
                   admitted, clean, trace, answers, settings, registry,
                   flight_vars, service_vars>>

\* the background write of a request admitted by a RedisLimiter
AdapterBackground ==
    /\ \E task \in BagToSet(tasks) :
         /\ tasks' = tasks (-) SetToBag({task})
         /\ store' = IF update_rates_outcome(task.rl, Up) = Ok
                     THEN update_rates(store, task.key, task.now, task.rl, now)
                     ELSE store
    /\ http' = [op |-> "background"]
    /\ UNCHANGED <<now, users, cfg, never_run_in_background, limits, last,
                   admitted, clean, trace, answers, settings, adapters,
                   registry, flight_vars, service_vars>>

\* await limiter.reset_user(user_id) on the i-th adapter
ResetUser ==
    /\ tasks = EmptyBag
    /\ \E i \in 1..Len(adapters), u \in users :
         LET flushed == reset_user(adapters[i], store, u)
         IN /\ adapters' = [adapters EXCEPT ![i].limits = flushed.limits]
            /\ store' = flushed.store
            /\ http' = [op |-> "reset_user", adapter |-> i, user |-> Some(u),
                        res |-> flushed.res]
    /\ UNCHANGED <<now, users, cfg, never_run_in_background, limits, tasks,
                   last, admitted, clean, trace, answers, settings, registry,
                   flight_vars, service_vars>>

\* await reset_all_ratelimiters_for_user(user_id)
ResetAllForUser ==
    /\ tasks = EmptyBag
    /\ \E u \in users :
         LET walked == reset_all_ratelimiters_for_user(registry, adapters,
                                                       store, u, 1)
         IN /\ adapters' = walked.adapters
            /\ store' = walked.store
            /\ http' = [op |-> "reset_all_ratelimiters_for_user",
                        user |-> Some(u), res |-> walked.res]
    /\ UNCHANGED <<now, users, cfg, never_run_in_background, limits, tasks,
                   last, admitted, clean, trace, answers, settings, registry,
                   flight_vars, service_vars>>

AdapterTick ==
    /\ \E t \in TimePoints(AdapterMaxSec, 0, 0) : Advance(t)
    /\ http' = [op |-> "tick"]
    /\ UNCHANGED <<trace, settings, adapters, registry, flight_vars, service_vars>>

NextAdapter ==
    SetEnv \/ Construct \/ Request \/ AdapterBackground \/ ResetUser
        \/ ResetAllForUser \/ AdapterTick

SpecAdapter == InitAdapter /\ [][NextAdapter]_vars

\* ------------------------------------------------------------------------
\* Specification of MemLimiter under cooperative concurrency: calls of
\* try_ratelimit, flush_user and reset are created as tasks, and the event
\* loop runs the tasks that are ready in any order.  The three coroutines
\* contain no await, so each of them runs from its first line to its last
\* once the event loop has picked it.
\* ------------------------------------------------------------------------
\* number of try_ratelimit calls among the tasks cs
PendingTries(cs) ==
    LET waiting == { call \in BagToSet(cs) : call.op = "try" }
    IN SumNat([call \in waiting |-> CopiesIn(call, cs)], waiting)

\* asyncio.create_task(limiter.try_ratelimit(u)), ...flush_user(u), ...reset()
MemBegin ==
    /\ BagCardinality(calls) < MaxInFlight
    /\ \E op \in {"try", "flush", "reset"}, u \in users :
         /\ op = "try" => MemTotal + PendingTries(calls) < MaxEvents
         /\ op = "reset" => u = ScenarioUser
         /\ calls' = calls (+) SetToBag({[op |-> op, base |-> ScenarioBase,
                                          user |-> u]})
    /\ peak' = IF BagCardinality(calls') > peak THEN BagCardinality(calls')
               ELSE peak
    /\ last' = Op("begin", ScenarioBase, <<>>, NoResult, NoResult)
    /\ UNCHANGED <<now, users, cfg, never_run_in_background, limits, store,
                   tasks, admitted, clean, trace, answers, adapter_vars,
                   service_vars>>

\* the event loop runs one of the tasks, to its end
MemRun ==
    /\ \E call \in BagToSet(calls) :
         LET d == limits[call.base]
             k == key(call.base, call.user)
             ran == IF call.op = "try"
                    THEN MemTryRatelimit(d, k, now, rates(cfg))
                    ELSE IF call.op = "flush" THEN MemFlushUser(d, k)
                    ELSE [res |-> Ok, limits |-> MemReset]
         IN /\ calls' = calls (-) SetToBag({call})
            /\ limits' = [limits EXCEPT ![call.base] = ran.limits]
            /\ last' = Op(call.op, call.base,
                          IF call.op = "reset" THEN <<>> ELSE call.user,
                          ran.res, NoResult)
    /\ UNCHANGED <<now, users, cfg, never_run_in_background, store, tasks,
                   admitted, clean, trace, answers, adapter_vars, peak,
                   service_vars>>

NextMem == MemBegin \/ MemRun \/ Tick

SpecMem == InitPlain /\ [][NextMem]_vars

\* ------------------------------------------------------------------------
\* Specification of the value objects: every RateLimit with fields unset or
\* set to 0..MaxLimit is evaluated, and limiters are constructed with
\* base_keys of 0..MaxKeyLen characters
\* ------------------------------------------------------------------------
LimitValues == {None} \cup { Some(n) : n \in 0..MaxLimit }

AllConfigs ==
    { RateLimit(ps, pm, ph, pd) :
        ps \in LimitValues, pm \in LimitValues, ph \in LimitValues, pd \in LimitValues }

\* a base_key of n characters
BaseKeyOfLen(n) == [i \in 1..n |-> "k"]

InitValues == InitWith(AllConfigs, {PlainUsers})

\* rates, max_duration and is_empty of the RateLimit are read
EvalRateLimit ==
    /\ http' = [op |-> "RateLimit",
                rates |-> rates(cfg),
                max_duration |-> IF rates(cfg) = <<>> THEN <<IndexError>>
                                 ELSE <<max_duration(cfg)>>,
                is_empty |-> is_empty(cfg)]
    /\ UNCHANGED <<now, users, cfg, never_run_in_background, limits, store,
                   tasks, last, admitted, clean, trace, answers, settings,
                   adapters, registry, flight_vars, service_vars>>

\* limiter_class(rates, base_key)
NewLimiter ==
    /\ \E n \in 0..MaxKeyLen, limiter_class \in {MemLimiter, RedisLimiter} :
         http' = [op |-> "limiter", base_key |-> BaseKeyOfLen(n),
                  limiter_class |-> limiter_class,
                  res |-> LimitBaseInit(BaseKeyOfLen(n))]
    /\ UNCHANGED <<now, users, cfg, never_run_in_background, limits, store,
                   tasks, last, admitted, clean, trace, answers, settings,
                   adapters, registry, flight_vars, service_vars>>

NextValues == EvalRateLimit \/ NewLimiter

SpecValues == InitValues /\ [][NextValues]_vars

\* ------------------------------------------------------------------------
\* Specification of RedisLimiter.try_ratelimit with its awaits: a call reads
\* the clock, its count query reaches the store later, and its write is
\* awaited or left to a background task; calls of one user overlap each
\* other and the background writes
\* ------------------------------------------------------------------------
ConcurrentConfigs ==
    { RateLimit(Some(1), None, None, None),
      RateLimit(None, Some(2), None, None) }

InitConcurrent == InitWith(ConcurrentConfigs, {{ScenarioUser}})

\* now = time.time(); key = self.key(user_id); the call waits for the store
BeginCall ==
    /\ BagCardinality(calls) < MaxInFlight
    /\ AdmittedTotal + BagCardinality(calls) < MaxEvents
    /\ \E u \in users :
         LET call == [key |-> key(ScenarioBase, u), now |-> now,
                      base |-> ScenarioBase, user |-> u, pc |-> "check_rates"]
         IN /\ calls' = calls (+) SetToBag({call})
            /\ peak' = IF BagCardinality(calls') > peak
                       THEN BagCardinality(calls') ELSE peak
    /\ last' = Op("begin", ScenarioBase, <<>>, NoResult, NoResult)
    /\ UNCHANGED <<now, users, cfg, never_run_in_background, limits, store,
                   tasks, admitted, clean, trace, answers, adapter_vars,
                   service_vars>>

\* the count query of a call is answered: the call raises, or goes on to
\* run_in_background, where it creates the task of its write and returns
\* or waits for the write
CheckRates ==
    /\ \E call \in BagToSet(calls) :
         /\ call.pc = "check_rates"
         /\ LET checked == redis_try_run(check_rates(store, call.key, call.now,
                                                     rates(cfg)))
                task == [key |-> call.key, now |-> call.now,
                         base |-> call.base, user |-> call.user]
            IN IF checked # Ok
               THEN /\ calls' = calls (-) SetToBag({call})
                    /\ last' = Op("try", call.base, call.user, NoResult, checked)
                    /\ UNCHANGED <<tasks, admitted>>
               ELSE IF never_run_in_background
                    THEN /\ calls' = (calls (-) SetToBag({call}))
                                      (+) SetToBag({[call EXCEPT !.pc = "update_rates"]})
                         /\ last' = Op("checked", call.base, call.user, NoResult, NoResult)
                         /\ UNCHANGED <<tasks, admitted>>
                    ELSE /\ calls' = calls (-) SetToBag({call})
                         /\ tasks' = tasks (+) SetToBag({task})
                         /\ admitted' = [admitted EXCEPT
                                            ![call.base][call.user] = Append(@, call.now)]
                         /\ last' = Op("try", call.base, call.user, NoResult, Ok)
    /\ UNCHANGED <<now, users, cfg, never_run_in_background, limits, store,
                   clean, trace, answers, adapter_vars, peak, service_vars>>

\* the awaited write of a call reaches the store and the call returns
UpdateRates ==
    /\ \E call \in BagToSet(calls) :
         /\ call.pc = "update_rates"
         /\ calls' = calls (-) SetToBag({call})
         /\ store' = update_rates(store, call.key, call.now, cfg, now)
         /\ admitted' = [admitted EXCEPT
                            ![call.base][call.user] = Append(@, call.now)]
         /\ last' = Op("try", call.base, call.user, NoResult, Ok)
    /\ UNCHANGED <<now, users, cfg, never_run_in_background, limits, tasks,
                   clean, trace, answers, adapter_vars, peak, service_vars>>

NextConcurrent == BeginCall \/ CheckRates \/ UpdateRates \/ BackgroundTask \/ Tick

SpecConcurrent == InitConcurrent /\ [][NextConcurrent]_vars

TypeOK ==
    /\ now \in Nat
    /\ clean \in BOOLEAN
    /\ last.mem \in {Ok, RateLimitExceeded, KeyError, NoResult}
    /\ last.redis \in {Ok, RateLimitExceeded, IndexError, NoResult} \cup StoreErrors

\* ------------------------------------------------------------------------
\* Specification of the scenario of do_tests: one limiter with
\* RateLimit(per_minute=2, per_hour=4), one user, calls one after another
\* ------------------------------------------------------------------------
InitScenario == InitWith({ScenarioConfig}, {{ScenarioUser}})

ScenarioTry ==
    /\ tasks = EmptyBag
    /\ Len(trace) < MaxTrace
    /\ Try(ScenarioBase, ScenarioUser, Up, Up)
    /\ trace' = Append(trace, [at |-> now, mem |-> last'.mem, redis |-> last'.redis])
    /\ UNCHANGED <<adapter_vars, flight_vars, service_vars>>

ScenarioBackground ==
    /\ \E task \in BagToSet(tasks) : Background(task, Up)
    /\ UNCHANGED <<trace, adapter_vars, flight_vars, service_vars>>

ScenarioTick ==
    /\ \E t \in TimePoints(ScenarioMaxSec, ScenarioMaxMin, ScenarioMaxHour) : Advance(t)
    /\ UNCHANGED <<trace, adapter_vars, flight_vars, service_vars>>

NextScenario == ScenarioTry \/ ScenarioBackground \/ ScenarioTick

SpecScenario == InitScenario /\ [][NextScenario]_vars

\* ------------------------------------------------------------------------
\* Views of the state used by the properties
\* ------------------------------------------------------------------------
\* the timestamps MemLimiter b holds for user u in the dictionaries lims
MemEventsOf(lims, b, u) ==
    IF key(b, u) \in DOMAIN lims[b] THEN lims[b][key(b, u)] ELSE <<>>

MemEvents(b, u) == MemEventsOf(limits, b, u)

\* what the store st holds under the key of (b, u): nothing, or one entry
StoreEntryOf(st, b, u) ==
    IF key(b, u) \in DOMAIN st THEN <<st[key(b, u)]>> ELSE <<>>

StoreEntry(b, u) == StoreEntryOf(store, b, u)

\* the scores of the events the store holds for (b, u)
RedisScores(b, u) ==
    IF key(b, u) \in DOMAIN store
    THEN LET z == store[key(b, u)].zset IN { z[m] : m \in DOMAIN z }
    ELSE {}

\* number of events the store st holds for (b, u)
RedisEventCountOf(st, b, u) ==
    IF key(b, u) \in DOMAIN st
    THEN Cardinality(DOMAIN st[key(b, u)].zset)
    ELSE 0

RedisEventCount(b, u) == RedisEventCountOf(store, b, u)

\* number of the timestamps of the sequence ts inside (t - d, t]
InWindow(ts, t, d) ==
    Cardinality({ i \in 1..Len(ts) : t - d < ts[i] /\ ts[i] <= t })

\* some window of the configuration holds at least its limit of ts
AtLimit(ts, t) ==
    \E i \in 1..Len(rates(cfg)) :
        InWindow(ts, t, rates(cfg)[i][2]) >= rates(cfg)[i][1]

\* as AtLimit, for the set of scores the store holds
ScoresAtLimit(scores, t) ==
    \E i \in 1..Len(rates(cfg)) :
        Cardinality({ x \in scores : t - rates(cfg)[i][2] < x /\ x <= t })
            >= rates(cfg)[i][1]

\* number of the timestamps of the sequence ts inside [t - d, t]
InClosedWindow(ts, t, d) ==
    Cardinality({ i \in 1..Len(ts) : t - d <= ts[i] /\ ts[i] <= t })

\* every window holds fewer than its limit of ts, a timestamp exactly one
\* duration old counted too
BelowLimit(ts, t) ==
    \A i \in 1..Len(rates(cfg)) :
        InClosedWindow(ts, t, rates(cfg)[i][2]) < rates(cfg)[i][1]

Decision(full) == IF full THEN RateLimitExceeded ELSE Ok

IsTry == last'.op = "try" /\ clean'

Pairs == BaseKeys \X users

\* ------------------------------------------------------------------------
\* Properties
\* ------------------------------------------------------------------------
C1_Step ==
    IsTry =>
        LET mem == MemEvents(last'.base, last'.user)
            redis == admitted[last'.base][last'.user]
        IN /\ AtLimit(mem, now) => last'.mem = RateLimitExceeded
           /\ BelowLimit(mem, now) => last'.mem = Ok
           /\ AtLimit(redis, now) => last'.redis = RateLimitExceeded
           /\ BelowLimit(redis, now) => last'.redis = Ok

C1_Bound ==
    clean =>
        \A p \in Pairs : \A i \in 1..Len(rates(cfg)) :
            /\ InWindow(MemEvents(p[1], p[2]), now, rates(cfg)[i][2]) <= rates(cfg)[i][1]
            /\ InWindow(admitted[p[1]][p[2]], now, rates(cfg)[i][2]) <= rates(cfg)[i][1]

\* C1: in both backends a try_ratelimit call of a user raises
\* RateLimitExceeded when some window (now - D, now] already holds N admitted
\* calls of that user on that limiter and succeeds when every window holds
\* fewer; with calls made one after another the number of admitted calls of
\* a user inside a window never exceeds N.  (For "fewer" a call exactly D old
\* is counted as well, so that the statement does not depend on which end of
\* the window is open.)
C1_LimitEnforced == [][C1_Step]_vars /\ []C1_Bound

C2_Step ==
    (IsTry /\ Len(rates(cfg)) = 1 /\ rates(cfg)[1][2] = 1) =>
        LET b == last'.base
            u == last'.user
        IN /\ (\A i \in 1..Len(MemEvents(b, u)) : MemEvents(b, u)[i] <= now - 1)
                => last'.mem = Ok
           /\ (\A i \in 1..Len(admitted[b][u]) : admitted[b][u][i] <= now - 1)
                => last'.redis = Ok

\* C2: with only per_second=N set, a try_ratelimit call made at least one
\* second (also exactly one second) after the user's last admitted call
\* succeeds in both backends, whatever number of rejected calls came between.
C2_AdmittedAgainAfterWindow == [][C2_Step]_vars

C3_Step ==
    last'.op = "try" =>
        /\ last'.mem = RateLimitExceeded =>
               \A p \in Pairs : MemEventsOf(limits', p[1], p[2]) = MemEvents(p[1], p[2])
        /\ last'.redis = RateLimitExceeded =>
               /\ store' = store
               /\ tasks' = tasks

\* C3: a try_ratelimit call that raises RateLimitExceeded leaves the stored
\* events of every user of every limiter as they were, in both backends, and
\* creates no background write.
C3_RejectedCallWritesNothing == [][C3_Step]_vars

\* C3 witness: a call both backends rejected, with events stored
C3_Witness ==
    /\ last.op = "try"
    /\ last.mem = RateLimitExceeded
    /\ last.redis = RateLimitExceeded
    /\ MemEvents(last.base, last.user) # <<>>
    /\ RedisEventCount(last.base, last.user) > 0

C4_MemStep ==
    (IsTry /\ last'.mem = Ok) =>
        MemEventsOf(limits', last'.base, last'.user)
            = Append(MemEvents(last'.base, last'.user), now)

\* the step runs update_rates for a call of (last'.base, last'.user)
WritesEvent ==
    \/ last'.op = "try" /\ last'.redis = Ok /\ never_run_in_background
    \/ last'.op = "background"

C4_RedisStep ==
    (WritesEvent /\ clean'
       /\ \A x \in RedisScores(last'.base, last'.user) : x > now - max_duration(cfg))
    => RedisEventCountOf(store', last'.base, last'.user)
           = RedisEventCount(last'.base, last'.user) + 1

\* C4: every try_ratelimit call that returns successfully records one new
\* event with timestamp now: MemLimiter appends now to the user's list, and
\* the write of an admitted RedisLimiter call adds one event to the events
\* the store holds for the user when these are all within max_duration, so
\* that k successful calls leave k events, equal timestamps included.
C4_OneEventPerAdmittedCall == [][C4_MemStep /\ C4_RedisStep]_vars

C5_Step ==
    IsTry =>
        LET b == last'.base
            u == last'.user
        IN /\ last'.mem = Decision(AtLimit(MemEvents(b, u), now))
           /\ last'.redis = Decision(ScoresAtLimit(RedisScores(b, u), now))

\* C5: in both backends a call at time now is rejected exactly when, for some
\* window (limit, duration), the number of the user's stored events with
\* now - duration < t <= now is at least limit; an event exactly duration
\* old is not counted.
C5_WindowBoundaries == [][C5_Step]_vars

\* the calls of the scenario and their outcomes; the last call is made at
\* any instant after the minute window has cleared and inside the hour
ScenarioTimes == <<{0}, {1}, {2}, {61}, {61}, {62}, 121..3599>>

ScenarioOutcomes ==
    <<Ok, Ok, RateLimitExceeded, Ok, Ok, RateLimitExceeded, RateLimitExceeded>>

\* C6: RateLimit(per_minute=2, per_hour=4), one user, both backends: calls
\* at t=0 and t=1 succeed, the call at t=2 raises, two calls at t=61 succeed,
\* the call at t=62 raises, and a call made once the minute window has
\* cleared, still inside the hour, raises.
C6_Scenario ==
    \A n \in 1..Len(trace) :
        (n <= Len(ScenarioTimes) /\ \A i \in 1..n : trace[i].at \in ScenarioTimes[i])
        => /\ trace[n].mem = ScenarioOutcomes[n]
           /\ trace[n].redis = ScenarioOutcomes[n]

C7_Step ==
    last'.op \in {"try", "flush", "background"} =>
        \A u \in users \ {last'.user} :
            /\ MemEventsOf(limits', last'.base, u) = MemEvents(last'.base, u)
            /\ StoreEntryOf(store', last'.base, u) = StoreEntry(last'.base, u)
            /\ admitted'[last'.base][u] = admitted[last'.base][u]

\* C7: on one limiter a try_ratelimit or flush_user call for user A, and the
\* background write of A's call, leave the stored events of every other
\* user B of that limiter as they were, in both backends.
C7_UserIsolation == [][C7_Step]_vars

\* C7 witness: a call of one user admitted by both backends while another
\* user of the same limiter has stored events in both backends
C7_Witness ==
    /\ last.op = "try"
    /\ last.mem = Ok
    /\ last.redis = Ok
    /\ tasks = EmptyBag
    /\ RedisEventCount(last.base, last.user) > 0
    /\ \E u \in users \ {last.user} :
           /\ MemEvents(last.base, u) # <<>>
           /\ RedisEventCount(last.base, u) > 0

C8_Step ==
    (last'.op = "flush" /\ clean') =>
        /\ MemEventsOf(limits', last'.base, last'.user) = <<>>
        /\ StoreEntryOf(store', last'.base, last'.user) = <<>>
        /\ \A p \in Pairs \ {<<last'.base, last'.user>>} :
               /\ MemEventsOf(limits', p[1], p[2]) = MemEvents(p[1], p[2])
               /\ admitted[p[1]][p[2]] # <<>>
                    => StoreEntryOf(store', p[1], p[2]) = StoreEntry(p[1], p[2])

\* C8: flush_user(u) on a limiter deletes all of u's events on that limiter
\* and leaves the events recorded for every other user of that limiter and
\* for every user of every other limiter as they were, in both backends.
C8_FlushUserOnly == [][C8_Step]_vars

C9_Step ==
    (last'.op = "reset" /\ clean') =>
        /\ \A u \in users :
               /\ MemEventsOf(limits', last'.base, u) = <<>>
               /\ StoreEntryOf(store', last'.base, u) = <<>>
        /\ \A p \in Pairs :
               p[1] # last'.base =>
                   /\ MemEventsOf(limits', p[1], p[2]) = MemEvents(p[1], p[2])
                   /\ StoreEntryOf(store', p[1], p[2]) = StoreEntry(p[1], p[2])

\* C9: reset() on a limiter deletes the events of every user of that limiter
\* and leaves the events of every other limiter as they were, also of a
\* limiter of the same store whose base_key has this base_key plus ':' as a
\* prefix.
C9_ResetThisLimiterOnly == [][C9_Step]_vars

\* C10: given the same calls at the same times, made one after another with
\* the store reachable, MemLimiter and RedisLimiter give the same outcome for
\* every try_ratelimit, flush_user and reset call.
C10_BackendEquivalence ==
    (clean /\ last.op \in {"try", "flush", "reset"}) => last.mem = last.redis

C11_Step ==
    /\ last'.op = "try" =>
           /\ last'.redis \in {Ok, RateLimitExceeded}
           /\ answers'[1] # Up => last'.redis = Ok
    /\ last'.op \in {"flush", "reset"} => last'.redis = Ok

\* C11: when the store raises ConnectionError, TimeoutError or RedisError on
\* a round trip, RedisLimiter.try_ratelimit returns normally: a call whose
\* count query failed succeeds, no call raises anything but
\* RateLimitExceeded, and flush_user and reset always return normally.
C11_FailOpen == [][C11_Step]_vars

\* C11 witness: a call admitted although the store held enough events to
\* reject it, because the count query failed
C11_Witness ==
    /\ last.op = "try"
    /\ answers[1] \in StoreErrors
    /\ last.mem = RateLimitExceeded
    /\ last.redis = Ok
    /\ RedisEventCount(last.base, last.user) > 0

C12_Step ==
    (last'.op = "try" /\ is_empty(cfg)) =>
        /\ last'.mem = Ok
        /\ last'.redis = Ok
        /\ store' = store
        /\ tasks' = tasks

\* C12: with an empty RateLimit every try_ratelimit call of both backends
\* returns normally, and the RedisLimiter call writes nothing to the store
\* and creates no background write.
C12_EmptyConfigShortCircuits == [][C12_Step]_vars

\* the sorted set the store would hold under the key of (b, u) had no event
\* been trimmed and no key expired: one member str(t) with score t for each
\* instant t of an admitted call
Untrimmed(b, u) ==
    LET times == { admitted[b][u][i] : i \in 1..Len(admitted[b][u]) }
    IN IF times = {} THEN EmptyDict
       ELSE DictSet(EmptyDict, key(b, u),
                    [zset |-> [m \in { PyStr(t) : t \in times } |->
                                 CHOOSE t \in times : PyStr(t) = m],
                     expire_at |-> None])

C25_Step ==
    IsTry =>
        last'.redis = check_rates(Untrimmed(last'.base, last'.user),
                                  key(last'.base, last'.user), now, rates(cfg))

\* C25: the trim and the time to live of update_rates never remove an event
\* that a later try_ratelimit call counts in one of its windows: every call
\* of RedisLimiter is accepted or rejected as the same count query on the
\* full, untrimmed history of the user's admitted calls would decide.
C25_EvictionPreservesDecisions == [][C25_Step]_vars

\* for every user and window, the events MemLimiter holds inside the window
\* are at most the limit
C26_NoOverAdmission ==
    \A u \in users : \A i \in 1..Len(rates(cfg)) :
        InWindow(MemEvents(ScenarioBase, u), now, rates(cfg)[i][2])
            <= rates(cfg)[i][1]

\* a call that ran while other calls were in flight
C26_Step ==
    (last'.op \in {"try", "flush", "reset"} /\ BagCardinality(calls) > 1) =>
        last'.mem \in {Ok, RateLimitExceeded}

\* C26: with any number of try_ratelimit, flush_user and reset calls of a
\* MemLimiter in flight at the same time, run in any order, the events
\* recorded for a user inside a window never exceed the limit of the window,
\* and no call that runs while others are in flight raises anything other
\* than RateLimitExceeded.
C26_MemConcurrency == []C26_NoOverAdmission /\ [][C26_Step]_vars

C27_Step ==
    (last'.op = "flush"
       /\ MemEvents(last'.base, last'.user) = <<>>
       /\ StoreEntry(last'.base, last'.user) = <<>>) =>
        /\ last'.mem = Ok
        /\ last'.redis = Ok
        /\ \A p \in Pairs :
               /\ MemEventsOf(limits', p[1], p[2]) = MemEvents(p[1], p[2])
               /\ StoreEntryOf(store', p[1], p[2]) = StoreEntry(p[1], p[2])

\* C27: flush_user(u) for a user without recorded events on the limiter (u
\* never called try_ratelimit, or was flushed or reset before) returns
\* normally and changes nothing, in both backends, so that a second
\* flush_user(u) in a row succeeds as well.
C27_FlushUserIdempotent == [][C27_Step]_vars

C28_Step ==
    last'.op \in {"try", "flush", "background"} =>
        \A p \in Pairs \ {<<last'.base, last'.user>>} :
            /\ key(p[1], p[2]) # key(last'.base, last'.user)
            /\ StoreEntryOf(store', p[1], p[2]) = StoreEntry(p[1], p[2])

\* C28: for limiters that share the store, the storage key of the pair
\* (base_key, user_id) of a try_ratelimit or flush_user call, or of the
\* background write of a call, is the key of no other pair, and the step
\* leaves the events stored for every other pair as they were, also when a
\* base_key or a user_id contains ':'.
C28_KeysCollisionFree == [][C28_Step]_vars

\* C29: every connection redis_try_run acquired is closed when the
\* operation ends, whether the coroutine returned, a Redis error was caught
\* or another exception such as RateLimitExceeded went through: after any
\* sequence of calls no connection is acquired and not closed.
C29_ConnectionsReleased == conns.acquired = conns.closed

\* the context of run() has exited and was not entered again
KafkaExited(c) == c # NoClient /\ c.pc = "exited"

\* C30: once the context manager of KafkaBase.run() has exited, the Kafka
\* client is stopped, and it is not started afterwards, also when the exit
\* comes while _start() is still connecting or retrying in the background.
C30_Step ==
    (KafkaExited(client) /\ KafkaExited(client'))
        => (client'.running => client.running)

C30_StoppedAfterExit ==
    /\ [](KafkaExited(client) => ~client.running)
    /\ [][C30_Step]_vars

\* the count check of the call of the step passed
CheckPassed ==
    /\ last'.op = "try"
    /\ admitted'[last'.base][last'.user] # admitted[last'.base][last'.user]

\* the call of the step returned with its write left to a new background
\* task, the store as it was
ReturnedBeforeWrite ==
    /\ last'.redis = Ok
    /\ store' = store
    /\ BagCardinality(tasks') = BagCardinality(tasks) + 1

C21_OriginalStep ==
    /\ CheckPassed => ReturnedBeforeWrite
    /\ last'.op = "background" => last'.redis = Ok

\* C21 as stated: once the count check has passed, try_ratelimit returns
\* success without waiting for the write, and no failure of the write makes
\* it raise.
C21_FireAndForgetAlways == [][C21_OriginalStep]_vars

C21_Step ==
    /\ (CheckPassed /\ ~never_run_in_background) => ReturnedBeforeWrite
    /\ (CheckPassed /\ never_run_in_background) =>
           /\ tasks' = tasks
           /\ update_rates_outcome(cfg, answers'[2]) = Ok =>
                  store' = update_rates(store, key(last'.base, last'.user),
                                        now, cfg, now)
           /\ update_rates_outcome(cfg, answers'[2]) \in StoreErrors =>
                  (last'.redis = Ok /\ store' = store)
    /\ last'.op = "background" =>
           /\ last'.redis = Ok
           /\ admitted' = admitted

\* C21: unless never_run_in_background(True) is set, a try_ratelimit call
\* whose count check has passed returns success with its write left to a
\* background task that has not touched the store yet, and the background
\* task ends without an exception whatever the write raises (a store error
\* or an exception of its own) and takes back no admitted call.  With
\* never_run_in_background(True) the call waits for the write, and a store
\* error of the write does not make it raise.
C21_FireAndForget == [][C21_Step]_vars

\* C21 witness: the background write of an admitted call failed, the call
\* having returned success with nothing written
C21_Witness ==
    /\ last.op = "background"
    /\ ~never_run_in_background
    /\ update_rates_outcome(cfg, answers[1]) # Ok
    /\ admitted[last.base][last.user] # <<>>
    /\ store = EmptyDict

\* the steps of a reset in flight
ResetOps == {"reset_scanned", "reset_page", "reset_done", "reset_failed",
             "reset_cancelled"}

C24_Step ==
    \A call \in BagToSet(calls) :
        last'.op \in ResetOps =>
            \* only keys of the page scanned last are deleted, and only by
            \* the delete that follows the scan
            /\ DOMAIN store' \subseteq DOMAIN store
            /\ \A k \in DOMAIN store' : store'[k] = store[k]
            /\ \A k \in DOMAIN store \ DOMAIN store' :
                   /\ call.pc = "delete"
                   /\ k \in call.keys
                   /\ GlobMatch(key(call.base, <<"*">>), k)
            /\ (call.pc = "delete" /\ answers' = <<Up>>) =>
                   call.keys \cap DOMAIN store' = {}
            \* the loop goes on from the cursor of the scan and ends at 0
            /\ \A next \in BagToSet(calls') :
                   IF call.pc = "scan"
                   THEN next.cursor > call.cursor
                            \/ (next.cursor = 0 /\ next.pc = "delete")
                   ELSE next.cursor = call.cursor /\ next.cursor # 0
            /\ (last'.op = "reset_done" /\ ~call.raced) =>
                   \A u \in AllUsers : key(call.base, u) \notin DOMAIN store'

\* C24: RedisLimiter.reset() repeats scan(cursor, match base_key:*) and the
\* delete of the keys returned, from cursor 0 until the store returns cursor
\* 0.  A reset whose round trips are all answered ends, and if no call wrote
\* to the store meanwhile no key of the limiter remains.  Each step deletes
\* only keys of the page just scanned for this base_key and changes no other
\* key, so that after a cancellation or a store error the keys deleted so
\* far stay deleted and the keys not scanned yet are as they were.
C24_ResetPages ==
    /\ [][C24_Step]_vars
    /\ (calls # EmptyBag) ~> (calls = EmptyBag)

\* C24 witness: a reset ended at cursor 0 and the store holds nothing of the
\* limiter, two users of which had been admitted and recorded at the same
\* instant, under keys of different pages
C24_Witness ==
    /\ last.op = "reset_done"
    /\ now = 0
    /\ tasks = EmptyBag
    /\ admitted[last.base][<<"a">>] # <<>>
    /\ admitted[last.base][<<"v", ":", "a">>] # <<>>
    /\ \A u \in AllUsers : key(last.base, u) \notin DOMAIN store

\* ------------------------------------------------------------------------
\* Properties of moya.util.asyncpool
\* ------------------------------------------------------------------------
C22_Running ==
    pool.pc # "idle" =>
        /\ \A i \in 1..MaxItems : pool.handled[i] <= 1
        /\ pool.logged = Cardinality(pool.raised)
        /\ pool.pc \in {"body", "join"} =>
               \A w \in DOMAIN pool.workers : pool.workers[w].pc # "done"

C22_Exited ==
    pool.pc = "exited" =>
        /\ \A i \in 1..MaxItems : pool.handled[i] = (IF i <= pool.put THEN 1 ELSE 0)
        /\ pool.queue = <<>>
        /\ pool.unfinished = 0
        /\ \A w \in DOMAIN pool.workers : pool.workers[w].pc = "done"

\* C22: when the asyncpool_queue context has exited, every item that was
\* put on the queue has been passed to fn exactly once and every worker has
\* ended; no item is ever passed to fn twice; an exception of fn is logged,
\* once for each item fn raised for, and ends no worker: the workers run
\* until the exit cancels them.
C22_EveryItemOnce == C22_Running /\ C22_Exited

\* C22 witness: a context with two workers has exited after fn was called
\* for two items or more and raised for one of them
C22_Witness ==
    /\ pool.pc = "exited"
    /\ Len(pool.workers) >= 2
    /\ pool.put >= 2
    /\ pool.raised # {}
    /\ pool.raised # 1..pool.put

\* ------------------------------------------------------------------------
\* Properties of moya.service.kafka_runner
\* ------------------------------------------------------------------------
\* every record up to the committed offset has been processed
C23_CommittedAreDone ==
    \A o \in 1..runner.committed : o \in runner.done

\* a batch is fetched when no record of the batch before it is on the queue
\* or in a worker
C23_FetchStep ==
    runner'.position > runner.position =>
        /\ pool.queue = <<>>
        /\ pool.unfinished = 0
        /\ \A w \in DOMAIN pool.workers : pool.workers[w].pc # "fn"

\* C23: the offsets of a fetched batch are committed only after all records
\* of the batch have been processed, so that a record that may be skipped
\* after a process exit (its offset committed) has always been processed:
\* no record is lost; and run() fetches the next batch only when every
\* record of the batch before it has finished processing.
C23_NoRecordLost == []C23_CommittedAreDone /\ [][C23_FetchStep]_vars

\* ------------------------------------------------------------------------
\* Properties of the request-gating adapters
\* ------------------------------------------------------------------------
\* the request of the step left every limiter and the store as they were
BackendUntouched ==
    /\ adapters' = adapters
    /\ store' = store
    /\ tasks' = tasks

C13_Step ==
    (http'.op = "request" /\ is_empty(adapters[http'.adapter].rates)) =>
        /\ http'.response = Proceeds
        /\ ~http'.called
        /\ BackendUntouched

\* C13: a request on an adapter whose RateLimit is empty goes on to the
\* handler, whoever the user is, and try_ratelimit of the backend is not
\* called: no limiter and no store entry changes.
C13_EmptyConfigNoOp == [][C13_Step]_vars

\* C13 witness: a request of an identified user passed the dependency of an
\* adapter with an empty RateLimit
C13_Witness ==
    /\ http.op = "request"
    /\ http.user # None
    /\ is_empty(adapters[http.adapter].rates)
    /\ http.response = Proceeds

C14_Step ==
    (http'.op = "request" /\ http'.user = None) =>
        /\ http'.response = Proceeds
        /\ ~http'.called
        /\ BackendUntouched

\* C14: a request for which the resolver returned None goes on to the
\* handler and the backend is not called: it is never rejected, records no
\* event and changes no user's state.
C14_NoIdentityBypass == [][C14_Step]_vars

\* C14 witness: a request without identity passed an adapter with limits
\* while the limiters hold events
C14_Witness ==
    /\ http.op = "request"
    /\ http.user = None
    /\ ~is_empty(adapters[http.adapter].rates)
    /\ http.response = Proceeds
    /\ AdapterEvents > 0

C15_Step ==
    http'.op = "request" =>
        /\ http'.response = HTTP_429_TOO_MANY_REQUESTS
               <=> (http'.called /\ http'.backend = RateLimitExceeded)
        /\ http'.response = Proceeds
               <=> (~http'.called \/ http'.backend = Ok)
        /\ http'.response # RateLimitExceeded

\* C15: a request is answered with HTTP 429 exactly when try_ratelimit of
\* the backend raised RateLimitExceeded for it, it goes on to the handler
\* exactly when try_ratelimit returned normally or was not called, and
\* RateLimitExceeded itself never leaves the dependency.
C15_Only429Translation == [][C15_Step]_vars

\* C15 witness: a request rejected by the backend and answered with 429
C15_Witness ==
    /\ http.op = "request"
    /\ http.called
    /\ http.backend = RateLimitExceeded
    /\ http.response = HTTP_429_TOO_MANY_REQUESTS

\* the RateLimit the resolution order gives for the name n and the caller's
\* default d, None when there is none
Resolved(n, d) ==
    IF n \in DOMAIN settings THEN Some(settings[n])
    ELSE IF Star \in DOMAIN settings THEN Some(settings[Star])
    ELSE d

C16_Step ==
    /\ http'.op = "construct" =>
           LET r == Resolved(http'.name, http'.default_limits)
           IN IF r = None
              THEN /\ http'.res = KeyError
                   /\ adapters' = adapters
              ELSE /\ http'.res = Ok
                   /\ Len(adapters') = Len(adapters) + 1
                   /\ adapters'[Len(adapters')].name = http'.name
                   /\ adapters'[Len(adapters')].rates = r[1]
    /\ \A i \in 1..Len(adapters) : adapters'[i].rates = adapters[i].rates

\* C16: RateLimiter(n, default) gives the adapter the entry of APP_RATELIMITS
\* for n if there is one, otherwise the "*" entry if there is one (also when
\* a default is supplied), otherwise the default, and otherwise raises
\* KeyError and creates no adapter; the RateLimit of an adapter never
\* changes after its construction.
C16_LimitResolution == [][C16_Step]_vars

\* C16 witness: an adapter constructed with a default took the "*" entry
C16_Witness ==
    /\ http.op = "construct"
    /\ http.res = Ok
    /\ http.default_limits # None
    /\ http.name \notin DOMAIN settings
    /\ Star \in DOMAIN settings
    /\ adapters[Len(adapters)].rates = settings[Star]

\* C17: constructing a limiter raises ValueError for every base_key of fewer
\* than 4 characters and succeeds for every base_key of 4 or more.
C17_BaseKeyMinLength ==
    http.op = "limiter" =>
        IF Len(http.base_key) < 4 THEN http.res = ValueError ELSE http.res = Ok

Fields == {"per_second", "per_minute", "per_hour", "per_day"}

FieldDuration ==
    [per_second |-> 1, per_minute |-> 60, per_hour |-> 3600, per_day |-> 86400]

SetFields(rl) == { f \in Fields : rl[f] # None }

\* C18: the rates of a RateLimit with k fields set are k (limit, duration)
\* pairs, one for each set field with the limit of the field and the
\* duration 1, 60, 3600 or 86400 of the field, in ascending order of
\* duration; max_duration is the largest duration of a set field; is_empty
\* is true exactly when no field is set, that is when rates is empty.
C18_Rates ==
    http.op = "RateLimit" =>
        /\ Len(http.rates) = Cardinality(SetFields(cfg))
        /\ \A f \in SetFields(cfg) :
               \E i \in 1..Len(http.rates) :
                   http.rates[i] = <<cfg[f][1], FieldDuration[f]>>
        /\ \A i, j \in 1..Len(http.rates) :
               i < j => http.rates[i][2] < http.rates[j][2]
        /\ SetFields(cfg) # {} =>
               /\ http.max_duration[1] \in { FieldDuration[f] : f \in SetFields(cfg) }
               /\ \A f \in SetFields(cfg) : FieldDuration[f] <= http.max_duration[1]
        /\ http.is_empty <=> SetFields(cfg) = {}
        /\ http.is_empty <=> http.rates = <<>>

\* C18 witness: a RateLimit with the first and the third field unset and the
\* other two set was evaluated
C18_Witness ==
    /\ http.op = "RateLimit"
    /\ SetFields(cfg) = {"per_minute", "per_day"}
    /\ Len(http.rates) = 2
    /\ http.max_duration = <<86400>>

\* try_ratelimit of the limiter of the i-th adapter of ads would raise
\* RateLimitExceeded for the user u now
Blocked(ads, st, i, u) ==
    /\ dependency(ads[i]) = Fn
    /\ LimiterTryRatelimit(ads[i], st, u, now, TRUE).res = RateLimitExceeded

C19_Registered ==
    \A i \in 1..Len(adapters) : \E j \in 1..Len(registry) : registry[j] = i

C19_Step ==
    http'.op = "reset_all_ratelimiters_for_user" =>
        \A i \in 1..Len(adapters) :
            /\ ~Blocked(adapters', store', i, http'.user[1])
            /\ \A w \in users \ {http'.user[1]} :
                   Blocked(adapters, store, i, w) => Blocked(adapters', store', i, w)

\* C19: every adapter constructed is in the registry, and after
\* reset_all_ratelimiters_for_user(u) the user u is blocked on no limiter of
\* the process while every other user blocked on a limiter is still blocked
\* on it.
C19_ResetUserEverywhere == []C19_Registered /\ [][C19_Step]_vars

\* C20: whatever the interleaving of the try_ratelimit calls of a user and
\* the background writes, the calls admitted inside a window (now - D, now]
\* are at most N plus the largest number of calls that were in flight at the
\* same time minus one; calls made one after another (never two in flight)
\* are admitted at most N times.
C20_OverAdmissionBound ==
    \A p \in Pairs : \A i \in 1..Len(rates(cfg)) :
        InWindow(admitted[p[1]][p[2]], now, rates(cfg)[i][2])
            <= rates(cfg)[i][1] + (IF peak > 1 THEN peak - 1 ELSE 0)

====
